---- MODULE Spec2Model ----
(***************************************************************************)
(* Model of the discovery store of sberz/ephemeral-envs                    *)
(* (internal/store/store.go, internal/store/environment.go).               *)
(*                                                                         *)
(* The store is a Go map from a key string to an Environment value.  The   *)
(* mutators AddEnvironment, DeleteEnvironment and UpdateEnvironment and    *)
(* the readers are each one action.  Probe handles are natural numbers     *)
(* handed out by the probe factories; the number of Destroy calls each     *)
(* handle has received is part of the state.                               *)
(*                                                                         *)
(* The second part models the Prometheus-backed probes                     *)
(* (internal/prometheus/query.go, single.go, bulk.go and the probe wrapper *)
(* PrometheusProbe): callers run Value on a probe step by step, taking the *)
(* probe mutex, the mutex of the bulk querier and, for the callers that    *)
(* come through the store, the store lock.  A backend query is in flight   *)
(* between the step that issues it and the step that receives its answer.  *)
(* The clock advances only while every caller waits for a query or a lock, *)
(* and a query is answered or cut off within Timeout.                      *)
(***************************************************************************)
EXTENDS Integers, Sequences, FiniteSets, TLC

\* Number of probe handles the factories can hand out in one run.
MaxProbes == 4

\* Largest number of Destroy calls on one handle that a run follows.
MaxDestroy == 2

\* Number of clock ticks a run of the probe layer follows.
MaxTicks == 4

\* Number of backend queries a run of the probe layer follows.
MaxQueries == 3

\* Number of probe handles the probers hand out to the event handlers in one
\* run.
EventProbes == 2

\* Number of Trigger calls on the ignition provider a run follows.
MaxTriggers == 2

\* Longest value of a query parameter, in characters, and the largest number
\* of occurrences of one parameter in a request.
MaxLen == 3

MaxValues == 2

\* ---------------------------------------------------------------------------
\* Values
\* ---------------------------------------------------------------------------

\* Go strings used as environment names, in ascending string order ("" first).
NameOrder == <<"", "a", "b">>

EnvNames == {NameOrder[i] : i \in 1..Len(NameOrder)}

NamespaceNames == {"", "n1", "n2"}

\* time.Time values; 0 is the zero time (IsZero).
Times == {0, 1, 2}

\* The runs that exercise names and namespaces take every namespace and one
\* creation time.
StoreNamespaces == NamespaceNames

StoreTimes == {0, 1}

\* A nil Go map, for URL and for the two probe maps.
NilURL == [k \in {"<nil>"} |-> "<nil>"]

NilProbes == [k \in {"<nil>"} |-> 0]

\* An empty, non-nil Go map.
EmptyMap == << >>

\* The nil probe interface value.
NilProbe == 0

Probes == 1..MaxProbes

\* Strict string order of slices.Sort on names.
Rank(n) == CHOOSE i \in 1..Len(NameOrder) : NameOrder[i] = n

Less(x, y) == Rank(x) < Rank(y)

\* ---------------------------------------------------------------------------
\* State
\* ---------------------------------------------------------------------------
VARIABLES
    env,        \* Store.env: key -> Environment
    envInfo,    \* series of the envInfo gauge: set of <<name, namespace>>
    destroyed,  \* probe handle -> number of Destroy calls it received
    nextProbe,  \* next handle the probe factories hand out
    installed,  \* handles that were ever held by a store entry
    last,       \* the operation performed last, with its arguments and error
    pre,        \* the store as it was before the last operation
    ret,        \* value returned by the last read
    now,        \* the clock (time.Now)
    eq,         \* environmentQuery: probe -> its cache, flag and mutex
    bulk,       \* BulkValueQuery: the shared cache, lastQuery and mutex
    queries,    \* backend queries issued so far, in order
    call,       \* caller -> the call it is running
    fin,        \* the call that returned in the last step, with its result
    slock,      \* Store.mu: the readers and the writer holding it
    ms,         \* one evaluation of Environment.MatchesStatus
    scall,      \* caller -> where it is in a call of the store, lock by lock
    ev,         \* the namespace event handled last, with the prober calls it made
    ign,        \* the ignition provider: its metrics and the call it served last
    kube        \* the cluster as the informer knows it: namespace -> its label

\* The variables of the probe layer.
qvars == <<now, eq, bulk, queries, call, fin, slock, ms, scall, ev, ign, kube>>

vars == <<env, envInfo, destroyed, nextProbe, installed, last, pre, ret,
          now, eq, bulk, queries, call, fin, slock, ms, scall, ev, ign, kube>>

\* Names of the namespaces of the cluster.
ClusterNamespaces == {"n1", "n2"}

\* The informer has seen no namespace yet.  exists: the namespace is in the
\* informer's cache; changed: it was deleted or relabelled at some point.
NoCluster == [n \in ClusterNamespaces |-> [label |-> "", exists |-> FALSE, changed |-> FALSE]]

ErrNone == "nil"

ErrInvalidEnvironment == "invalid environment"

ErrEnvironmentNotFound == "environment not found"

ErrImmutableFieldChanged == "immutable field changed"

ErrEnvironmentRequired == "environment is required"

\* The error of a provider other than the built-in one.
ErrProviderFailed == "provider failed"

\* The zero Environment{} value returned next to an error.
ZeroEnvironment ==
    [Name |-> "", Namespace |-> "", CreatedAt |-> 0,
     URL |-> NilURL, StatusChecks |-> NilProbes, MetaProbes |-> NilProbes]

\* ---------------------------------------------------------------------------
\* Environment (environment.go)
\* ---------------------------------------------------------------------------

\* Environment.IsValid: the set of keys of the problems map.
IsValid(e) ==
    (IF e.Name = "" THEN {"name"} ELSE {})
    \cup (IF e.CreatedAt = 0 THEN {"createdAt"} ELSE {})
    \cup (IF e.Namespace = "" THEN {"namespace"} ELSE {})
    \cup (IF e.URL = NilURL THEN {"url"}
          ELSE (IF \E k \in DOMAIN e.URL : k = "" THEN {"urlKey"} ELSE {})
               \cup (IF \E k \in DOMAIN e.URL : e.URL[k] = "" THEN {"urlValue"} ELSE {}))
    \cup (IF e.StatusChecks = NilProbes THEN {"statusChecks"}
          ELSE (IF \E k \in DOMAIN e.StatusChecks : k = "" THEN {"statusCheckKey"} ELSE {})
               \cup (IF \E k \in DOMAIN e.StatusChecks : e.StatusChecks[k] = NilProbe
                     THEN {"statusCheckValue"} ELSE {}))
    \cup (IF e.MetaProbes = NilProbes THEN {"metadata"}
          ELSE (IF \E k \in DOMAIN e.MetaProbes : k = "" THEN {"metadataKey"} ELSE {})
               \cup (IF \E k \in DOMAIN e.MetaProbes : e.MetaProbes[k] = NilProbe
                     THEN {"metadataValue"} ELSE {}))

\* Environment.UpdateEnvironment: the error and the receiver after the call.
EnvUpdateEnvironment(e, new) ==
    IF new.Name # "" /\ new.Name # e.Name
    THEN [err |-> ErrImmutableFieldChanged, e |-> e]
    ELSE IF new.Namespace # "" /\ new.Namespace # e.Namespace
    THEN [err |-> ErrImmutableFieldChanged, e |-> e]
    ELSE IF new.CreatedAt # 0 /\ new.CreatedAt # e.CreatedAt
    THEN [err |-> ErrImmutableFieldChanged, e |-> e]
    ELSE [err |-> ErrNone,
          e |-> [e EXCEPT
                   !.URL = IF new.URL # NilURL THEN new.URL ELSE @,
                   !.StatusChecks = IF new.StatusChecks # NilProbes
                                    THEN new.StatusChecks ELSE @,
                   !.MetaProbes = IF new.MetaProbes # NilProbes
                                  THEN new.MetaProbes ELSE @]]

\* ---------------------------------------------------------------------------
\* Store (store.go); a store value st is [env, envInfo, destroyed]
\* ---------------------------------------------------------------------------

\* delete(m, k) on a Go map.
MapDelete(m, k) == [x \in DOMAIN m \ {k} |-> m[x]]

\* m[k] = v on a Go map.
MapPut(m, k, v) == [x \in DOMAIN m \cup {k} |-> IF x = k THEN v ELSE m[x]]

\* The loop of deleteEnvironment over env.StatusChecks: every non-nil status
\* probe gets one Destroy call per key it is stored under.
DestroyStatusChecks(d, e) ==
    [p \in DOMAIN d |->
        d[p] + Cardinality({k \in DOMAIN e.StatusChecks : e.StatusChecks[k] = p})]

\* Store.deleteEnvironment
deleteEnvironment(st, name) ==
    IF name \notin DOMAIN st.env
    THEN [err |-> ErrEnvironmentNotFound, st |-> st]
    ELSE LET e == st.env[name] IN
         [err |-> ErrNone,
          st |-> [env |-> MapDelete(st.env, name),
                  envInfo |-> st.envInfo \ {<<e.Name, e.Namespace>>},
                  destroyed |-> DestroyStatusChecks(st.destroyed, e)]]

\* Store.addEnvironment
addEnvironment(st, e) ==
    IF IsValid(e) # {}
    THEN [err |-> ErrInvalidEnvironment, st |-> st]
    ELSE LET d == IF e.Name \in DOMAIN st.env
                  THEN deleteEnvironment(st, e.Name)
                  ELSE [err |-> ErrNone, st |-> st]
         IN IF d.err # ErrNone
            THEN [err |-> d.err, st |-> d.st]
            ELSE [err |-> ErrNone,
                  st |-> [d.st EXCEPT
                            !.env = MapPut(@, e.Name, e),
                            !.envInfo = @ \cup {<<e.Name, e.Namespace>>}]]

\* Store.UpdateEnvironment
updateEnvironment(st, name, e) ==
    IF name \notin DOMAIN st.env
    THEN addEnvironment(st, e)
    ELSE LET u == EnvUpdateEnvironment(st.env[name], e) IN
         IF u.err = ErrNone
         THEN [err |-> ErrNone, st |-> [st EXCEPT !.env = MapPut(@, e.Name, u.e)]]
         ELSE LET d == deleteEnvironment(st, name) IN
              IF d.err # ErrNone
              THEN [err |-> d.err, st |-> d.st]
              ELSE addEnvironment(d.st, e)

\* ---------------------------------------------------------------------------
\* Environments handed to the store
\* ---------------------------------------------------------------------------

\* How a probe map of an incoming environment is built: nil, empty, or one
\* entry holding a handle freshly made by a factory.  A payload is the URL map
\* with the shapes of StatusChecks and MetaProbes.
NoPayload == <<NilURL, "nil", "nil">>

EmptyPayload == <<EmptyMap, "empty", "empty">>

URLPayload == <<[k \in {"app"} |-> "u1"], "empty", "empty">>

ProbePayload == <<[k \in {"app"} |-> "u1"], "one", "one">>

\* Payloads of the runs that exercise names, namespaces and creation times.
Payloads == {NoPayload, EmptyPayload, URLPayload}

\* The runs that exercise the probe handles take one namespace and every
\* creation time.
ProbePayloads == {NoPayload, EmptyPayload, ProbePayload}

ProbeNamespaces == {"n1"}

ProbeTimes == Times

ProbeMap(shape, key, p) ==
    CASE shape = "nil" -> NilProbes
      [] shape = "empty" -> EmptyMap
      [] OTHER -> [k \in {key} |-> p]

\* Handles consumed by building the two probe maps.
Needed(sc, mp) == (IF sc = "one" THEN 1 ELSE 0) + (IF mp = "one" THEN 1 ELSE 0)

NewEnvironment(n, ns, t, u, sc, mp) ==
    [Name |-> n, Namespace |-> ns, CreatedAt |-> t, URL |-> u,
     StatusChecks |-> ProbeMap(sc, "healthy", nextProbe),
     MetaProbes |-> ProbeMap(mp, "owner", nextProbe + (IF sc = "one" THEN 1 ELSE 0))]

\* Values of a Go map.
MapRange(m) == {m[k] : k \in DOMAIN m}

\* Probe handles held by the entries of a store map.
HeldStatus(m) == UNION {MapRange(m[k].StatusChecks) : k \in DOMAIN m} \ {NilProbe}

HeldMeta(m) == UNION {MapRange(m[k].MetaProbes) : k \in DOMAIN m} \ {NilProbe}

Held(m) == HeldStatus(m) \cup HeldMeta(m)

Store == [env |-> env, envInfo |-> envInfo, destroyed |-> destroyed]

\* NewStore: no entry, no gauge series, no probe destroyed.
NewStore == [env |-> << >>, envInfo |-> {}, destroyed |-> [p \in Probes |-> 0]]

\* Effect of a mutator whose result is r on the state.
Commit(op, name, e, r, used) ==
    /\ \A p \in Probes : r.st.destroyed[p] <= MaxDestroy
    /\ env' = r.st.env
    /\ envInfo' = r.st.envInfo
    /\ destroyed' = r.st.destroyed
    /\ nextProbe' = nextProbe + used
    /\ installed' = installed \cup Held(r.st.env)
    /\ last' = [op |-> op, name |-> name, env |-> e, err |-> r.err]
    /\ pre' = Store
    /\ ret' = [err |-> r.err]
    /\ UNCHANGED qvars

\* ---------------------------------------------------------------------------
\* Probe layer: values and initial state
\* ---------------------------------------------------------------------------

\* QueryConfig.Interval and QueryConfig.Timeout in clock ticks; Validate
\* accepts a configuration only if 0 < Timeout < Interval.
Interval == 2

Timeout == Interval - 1

\* time.Time{}, the zero time.  The process starts at least one interval
\* after it, so that time.Since(zero time) >= Interval at every moment.
ZeroTime == 0

StartTime == ZeroTime + Interval

\* Goroutines calling into the probes.
MaxCallers == 2

Callers == 1..MaxCallers

\* No goroutine (holder of a free mutex).
NoCaller == 0

\* The environmentQuery values: one bound to a single-value querier and two
\* bound to one bulk querier, with the environment each was made for.
QueryProbes == {"s1", "b1", "b2"}

SingleProbes == {"s1"}

BulkProbes == {"b1", "b2"}

Bound ==
    [p \in QueryProbes |->
        IF p = "b2" THEN [name |-> "b", namespace |-> "n2"]
        ELSE [name |-> "a", namespace |-> "n1"]]

QueryMatchOnEnvName == "name"

QueryMatchOnNamespace == "namespace"

\* model.Sample: the value, the timestamp and (history) the number, in
\* queries, of the backend query that produced it.
ZeroSample == [Value |-> 0, Timestamp |-> ZeroTime, q |-> 0]

ErrResultNotFound == "result not found"

ErrTooManyResults == "too many results"

ErrResultNotParsable == "result not parseable"

ErrQueryFailed == "query failed"

\* A goroutine that runs no call.
NoCall ==
    [pc |-> "idle", op |-> "none", probe |-> "s1", phase |-> "value",
     start |-> ZeroTime, seen |-> ZeroSample, seenUpdate |-> ZeroTime,
     nq |-> 0, qid |-> 0, val |-> ZeroSample, txt |-> ZeroSample, err |-> ErrNone]

\* The backend has not answered in the last step.
NoAnswer == [kind |-> "none", keys |-> {}]

\* No call has returned and no query was answered in the last step.
NoFin == [by |-> NoCaller, r |-> NoCall, ans |-> NoAnswer]

\* No namespace event has been handled.
NoEvent == [type |-> "none"]

\* NewProvider: the instrumented provider before its first call; no series of
\* ephemeralenv_last_ignition_requested, every counter of
\* ephemeralenv_ignition_triggers_total at zero.
NewProvider ==
    [requested |-> << >>, triggers |-> << >>, calls |-> 0,
     last |-> [req |-> [Environment |-> "", Namespace |-> ""], next |-> "none",
               err |-> ErrNone]]

\* A goroutine that is not in a call of the store.
NoStoreCall == [pc |-> "idle", during |-> FALSE]

\* No evaluation of MatchesStatus is followed.
NoMatch == [checks |-> << >>, state |-> << >>, done |-> FALSE, result |-> FALSE]

\* The probes right after AddEnvironment made them, the bulk querier right
\* after NewBulkValueQuery(cfg) with cfg.MatchOn = matchOn, nobody calling.
QueryInit(matchOn) ==
    /\ now = StartTime
    /\ eq = [p \in QueryProbes |->
                [lastStored |-> ZeroSample, lastUpdate |-> ZeroTime,
                 registered |-> TRUE, mu |-> NoCaller]]
    /\ bulk = [lastQuery |-> ZeroTime, valCache |-> << >>, mu |-> NoCaller,
               MatchOn |-> matchOn, q |-> 0]
    /\ queries = << >>
    /\ call = [c \in Callers |-> NoCall]
    /\ fin = NoFin
    /\ slock = [readers |-> {}, writer |-> NoCaller]
    /\ ms = NoMatch
    /\ scall = [c \in Callers |-> NoStoreCall]
    /\ ev = NoEvent
    /\ ign = NewProvider
    /\ kube = NoCluster

\* No store call is in progress: the previous caller has returned.
Idle == [op |-> "idle", name |-> "", env |-> ZeroEnvironment, err |-> ErrNone]

Init ==
    /\ env = NewStore.env
    /\ envInfo = NewStore.envInfo
    /\ destroyed = NewStore.destroyed
    /\ nextProbe = 1
    /\ installed = {}
    /\ last = Idle
    /\ pre = NewStore
    /\ ret = [err |-> ErrNone]
    /\ QueryInit(QueryMatchOnEnvName)

\* Store.AddEnvironment, for an environment drawn from namespaces NS,
\* times T and payloads P
AddEnvironment(NS, T, P) ==
    \E n \in EnvNames, ns \in NS, t \in T, p \in P :
        /\ last = Idle
        /\ nextProbe + Needed(p[2], p[3]) <= MaxProbes + 1
        /\ LET e == NewEnvironment(n, ns, t, p[1], p[2], p[3]) IN
           Commit("add", e.Name, e, addEnvironment(Store, e), Needed(p[2], p[3]))

\* Store.DeleteEnvironment
DeleteEnvironment ==
    \E name \in EnvNames :
        /\ last = Idle
        /\ Commit("delete", name, ZeroEnvironment, deleteEnvironment(Store, name), 0)

\* Store.UpdateEnvironment
UpdateEnvironment(NS, T, P) ==
    \E name \in EnvNames, n \in EnvNames, ns \in NS, t \in T, p \in P :
        /\ last = Idle
        /\ nextProbe + Needed(p[2], p[3]) <= MaxProbes + 1
        /\ LET e == NewEnvironment(n, ns, t, p[1], p[2], p[3]) IN
           Commit("update", name, e, updateEnvironment(Store, name, e), Needed(p[2], p[3]))

\* Effect of a read on the state: only the result is recorded.
Read(op, name, r) ==
    /\ last = Idle
    /\ last' = [op |-> op, name |-> name, env |-> ZeroEnvironment, err |-> r.err]
    /\ pre' = Store
    /\ ret' = r
    /\ UNCHANGED <<env, envInfo, destroyed, nextProbe, installed, qvars>>

\* Orders in which a range loop may visit the keys of a Go map.
Orders(m) ==
    {f \in [1..Cardinality(DOMAIN m) -> DOMAIN m] :
        \A i, j \in 1..Cardinality(DOMAIN m) : i # j => f[i] # f[j]}

\* slices.Sort on a slice of names.
Insert(x, s) ==
    LET k == Cardinality({i \in 1..Len(s) : ~Less(x, s[i])})
    IN SubSeq(s, 1, k) \o <<x>> \o SubSeq(s, k + 1, Len(s))

RECURSIVE Sort(_)
Sort(s) == IF s = << >> THEN << >> ELSE Insert(s[1], Sort(Tail(s)))

\* Store.GetEnvironment
getEnvironment(m, name) ==
    IF name \notin DOMAIN m
    THEN [err |-> ErrEnvironmentNotFound, env |-> ZeroEnvironment]
    ELSE [err |-> ErrNone, env |-> m[name]]

GetEnvironment ==
    \E name \in EnvNames : Read("get", name, getEnvironment(env, name))

\* Store.GetAllEnvironments: the entries in the order the range loop visits them.
getAllEnvironments(m, order) ==
    [err |-> ErrNone, envs |-> [i \in 1..Len(order) |-> m[order[i]]]]

GetAllEnvironments ==
    \E order \in Orders(env) : Read("getAll", "", getAllEnvironments(env, order))

\* Store.GetEnvironmentByNamespace: the first entry of the namespace the range
\* loop meets.
getEnvironmentByNamespace(m, namespace, order) ==
    LET hits == {i \in 1..Len(order) : m[order[i]].Namespace = namespace} IN
    IF hits = {}
    THEN [err |-> ErrEnvironmentNotFound, env |-> ZeroEnvironment]
    ELSE [err |-> ErrNone,
          env |-> m[order[CHOOSE i \in hits : \A j \in hits : i <= j]]]

GetEnvironmentByNamespace ==
    \E namespace \in NamespaceNames, order \in Orders(env) :
        Read("getByNamespace", namespace, getEnvironmentByNamespace(env, namespace, order))

\* Store.ListEnvironmentNames
listEnvironmentNames(m, order) ==
    [err |-> ErrNone, names |-> Sort(order)]

ListEnvironmentNames ==
    \E order \in Orders(env) : Read("listNames", "", listEnvironmentNames(env, order))

\* Store.GetEnvironmentCount
getEnvironmentCount(m) ==
    [err |-> ErrNone, count |-> Cardinality(DOMAIN m)]

GetEnvironmentCount == Read("count", "", getEnvironmentCount(env))

\* The caller of the store has dealt with the result (the event handlers log
\* it and count the event) and returns.
Return ==
    /\ last # Idle
    /\ last' = Idle
    /\ pre' = NewStore
    /\ ret' = [err |-> ErrNone]
    /\ UNCHANGED <<env, envInfo, destroyed, nextProbe, installed, qvars>>

\* The store under environments with every name, namespace and creation time.
Next ==
    \/ AddEnvironment(StoreNamespaces, StoreTimes, Payloads)
    \/ DeleteEnvironment
    \/ UpdateEnvironment(StoreNamespaces, StoreTimes, Payloads)
    \/ GetEnvironment
    \/ GetAllEnvironments
    \/ GetEnvironmentByNamespace
    \/ ListEnvironmentNames
    \/ GetEnvironmentCount
    \/ Return

Spec == Init /\ [][Next]_vars

\* The store under environments that carry probe handles.
NextProbes ==
    \/ AddEnvironment(ProbeNamespaces, ProbeTimes, ProbePayloads)
    \/ DeleteEnvironment
    \/ UpdateEnvironment(ProbeNamespaces, ProbeTimes, ProbePayloads)
    \/ GetEnvironment
    \/ GetEnvironmentCount
    \/ Return

SpecProbes == Init /\ [][NextProbes]_vars

\* The store under environments whose URL map may carry an empty value (a
\* namespace annotated with an empty URL, events.go buildURLMap).
BlankURLPayload == <<[k \in {"app"} |-> ""], "empty", "empty">>

ValidityPayloads == {EmptyPayload, URLPayload, BlankURLPayload}

ValidityNamespaces == {"n1"}

ValidityTimes == Times

NextValidity ==
    \/ AddEnvironment(ValidityNamespaces, ValidityTimes, ValidityPayloads)
    \/ DeleteEnvironment
    \/ UpdateEnvironment(ValidityNamespaces, ValidityTimes, ValidityPayloads)
    \/ Return

SpecValidity == Init /\ [][NextValidity]_vars

\* ---------------------------------------------------------------------------
\* Probe layer: environmentQuery, SingleValueQuery, BulkValueQuery
\* ---------------------------------------------------------------------------

\* time.Since(t)
Since(t) == now - t

\* matchKey with the two selectors exchanged.
matchKeySwapped(matchOn, name, namespace) ==
    CASE matchOn = QueryMatchOnEnvName -> namespace
      [] matchOn = QueryMatchOnNamespace -> name
      [] OTHER -> ""

\* BulkValueQuery.matchKey
matchKey(matchOn, name, namespace) ==
    CASE matchOn = QueryMatchOnEnvName -> name
      [] matchOn = QueryMatchOnNamespace -> namespace
      [] OTHER -> ""

\* What apiClient.Query can come back with: an error (a timeout included), a
\* result that is not a vector, or a vector with one sample per label value.
AnswerError == [kind |-> "error", keys |-> {}]

AnswerMatrix == [kind |-> "matrix", keys |-> {}]

AnswerVector(K) == [kind |-> "vector", keys |-> K]

\* Answers to the query of a single-value querier: the limit of 2 lets at most
\* two samples through.
SingleAnswers ==
    {AnswerError, AnswerMatrix,
     AnswerVector({}), AnswerVector({"a"}), AnswerVector({"a", "b"})}

\* Answers to the query of the bulk querier, indexed by the match label.
BulkAnswers ==
    {AnswerError, AnswerMatrix,
     AnswerVector({}), AnswerVector({"a"}), AnswerVector({"n1", "n2"})}

\* The entry of queries for a query issued now on behalf of probe p (the bulk
\* querier issues its query for all its probes).
Issued(p) ==
    [querier |-> IF p \in SingleProbes THEN p ELSE "bulk", issued |-> now,
     state |-> "pending"]

\* The call r as it is in call, and as it is in fin, once the step that
\* yields r is taken: a call that has returned leaves the goroutine idle.
Running(r) == IF r.pc = "done" THEN NoCall ELSE r

Returned(c, r) ==
    IF r.pc = "done" THEN [by |-> c, r |-> r, ans |-> NoAnswer] ELSE NoFin

\* The same once the backend has answered the query of the call with a: the
\* call is recorded with the answer whether it returns or goes on.
Answered(c, r, a) ==
    [by |-> IF r.pc = "done" THEN c ELSE NoCaller, r |-> r, ans |-> a]

\* sample() has returned s to the call r: PrometheusProbe.Value goes on from
\* QueryExecutor.Value to Text, and from Text to its own return.
Deliver(r, s) ==
    IF r.phase = "value"
    THEN [r EXCEPT !.val = s, !.phase = "text", !.pc = "lock"]
    ELSE [r EXCEPT !.txt = s, !.pc = "done"]

\* sample() has returned the error e to the call r, which returns it.
Failed(r, e) == [r EXCEPT !.err = e, !.pc = "done"]

\* Store.mu without the deferred RUnlock: a reader that has returned still
\* holds the lock.
ReleasedByWriterOnly(c, r) ==
    IF r.pc = "done"
    THEN [readers |-> slock.readers,
          writer |-> IF slock.writer = c THEN NoCaller ELSE slock.writer]
    ELSE slock

\* Store.mu once caller c is in state r: a call that has returned has
\* released what it held (the deferred RUnlock or Unlock).
Released(c, r) ==
    IF r.pc = "done"
    THEN [readers |-> slock.readers \ {c},
          writer |-> IF slock.writer = c THEN NoCaller ELSE slock.writer]
    ELSE slock

\* sample() with the age of the cache compared with Timeout instead of
\* Interval.
sampleEnterTimeout(c, r) ==
    LET e == eq[r.probe] IN
    IF ~e.registered
    THEN [eqp |-> e, issue |-> FALSE, rec |-> Failed(r, ErrResultNotFound)]
    ELSE IF Since(e.lastUpdate) < Timeout
    THEN [eqp |-> e, issue |-> FALSE, rec |-> Deliver(r, e.lastStored)]
    ELSE IF r.probe \in SingleProbes
    THEN [eqp |-> [e EXCEPT !.mu = c], issue |-> TRUE,
          rec |-> [r EXCEPT !.pc = "query", !.nq = @ + 1,
                            !.qid = Len(queries) + 1]]
    ELSE [eqp |-> [e EXCEPT !.mu = c], issue |-> FALSE,
          rec |-> [r EXCEPT !.pc = "bulklock"]]

\* sample() that does not hold q.mu while queryForEnvironment runs.
sampleEnterUnlocked(c, r) ==
    LET e == eq[r.probe] IN
    IF ~e.registered
    THEN [eqp |-> e, issue |-> FALSE, rec |-> Failed(r, ErrResultNotFound)]
    ELSE IF Since(e.lastUpdate) < Interval
    THEN [eqp |-> e, issue |-> FALSE, rec |-> Deliver(r, e.lastStored)]
    ELSE IF r.probe \in SingleProbes
    THEN [eqp |-> e, issue |-> TRUE,
          rec |-> [r EXCEPT !.pc = "query", !.nq = @ + 1,
                            !.qid = Len(queries) + 1]]
    ELSE [eqp |-> e, issue |-> FALSE,
          rec |-> [r EXCEPT !.pc = "bulklock"]]

\* environmentQuery.sample from taking q.mu to its return or to the call of
\* queryForEnvironment, for caller c running the call r.
sampleEnter(c, r) ==
    LET e == eq[r.probe] IN
    IF ~e.registered
    THEN [eqp |-> e, issue |-> FALSE, rec |-> Failed(r, ErrResultNotFound)]
    ELSE IF Since(e.lastUpdate) < Interval
    THEN [eqp |-> e, issue |-> FALSE, rec |-> Deliver(r, e.lastStored)]
    ELSE IF r.probe \in SingleProbes
    THEN [eqp |-> [e EXCEPT !.mu = c], issue |-> TRUE,
          rec |-> [r EXCEPT !.pc = "query", !.nq = @ + 1,
                            !.qid = Len(queries) + 1]]
    ELSE [eqp |-> [e EXCEPT !.mu = c], issue |-> FALSE,
          rec |-> [r EXCEPT !.pc = "bulklock"]]

\* BulkValueQuery.queryForEnvironment from taking q.mu to its return from the
\* cache or to the call of apiClient.Query.
bulkEnter(c, r) ==
    LET e == eq[r.probe]
        match == matchKey(bulk.MatchOn, Bound[r.probe].name, Bound[r.probe].namespace)
        s == IF match \in DOMAIN bulk.valCache
             THEN bulk.valCache[match]
             ELSE [Value |-> 0, Timestamp |-> bulk.lastQuery, q |-> bulk.q]
    IN
    IF Since(bulk.lastQuery) < Interval
    THEN [eqp |-> [e EXCEPT !.lastStored = s, !.lastUpdate = now, !.mu = NoCaller],
          blk |-> bulk, issue |-> FALSE, rec |-> Deliver(r, s)]
    ELSE [eqp |-> e,
          blk |-> [bulk EXCEPT !.valCache = << >>, !.mu = c],
          issue |-> TRUE,
          rec |-> [r EXCEPT !.pc = "query", !.nq = @ + 1,
                            !.qid = Len(queries) + 1]]

\* singleAnswer that drops the cached sample when the query fails.
singleAnswerClearing(c, r, a) ==
    LET e == eq[r.probe]
        id == r.qid
        s == [Value |-> 1, Timestamp |-> queries[id].issued, q |-> id]
        err == CASE a.kind = "error" -> ErrQueryFailed
                 [] a.kind = "matrix" -> ErrResultNotParsable
                 [] Cardinality(a.keys) = 0 -> ErrResultNotFound
                 [] Cardinality(a.keys) > 1 -> ErrTooManyResults
                 [] OTHER -> ErrNone
    IN
    IF err # ErrNone
    THEN [eqp |-> [e EXCEPT !.lastStored = ZeroSample, !.lastUpdate = ZeroTime,
                            !.mu = NoCaller],
          blk |-> bulk, rec |-> Failed(r, err)]
    ELSE [eqp |-> [e EXCEPT !.lastStored = s, !.lastUpdate = now, !.mu = NoCaller],
          blk |-> bulk, rec |-> Deliver(r, s)]

\* SingleValueQuery.queryForEnvironment from the answer a of the backend on,
\* and the rest of environmentQuery.sample.
singleAnswer(c, r, a) ==
    LET e == eq[r.probe]
        id == r.qid
        s == [Value |-> 1, Timestamp |-> queries[id].issued, q |-> id]
        err == CASE a.kind = "error" -> ErrQueryFailed
                 [] a.kind = "matrix" -> ErrResultNotParsable
                 [] Cardinality(a.keys) = 0 -> ErrResultNotFound
                 [] Cardinality(a.keys) > 1 -> ErrTooManyResults
                 [] OTHER -> ErrNone
    IN
    IF err # ErrNone
    THEN [eqp |-> [e EXCEPT !.mu = NoCaller], blk |-> bulk, rec |-> Failed(r, err)]
    ELSE [eqp |-> [e EXCEPT !.lastStored = s, !.lastUpdate = now, !.mu = NoCaller],
          blk |-> bulk, rec |-> Deliver(r, s)]

\* bulkAnswer that stamps lastQuery and lastUpdate when the query fails.
bulkAnswerStamping(c, r, a) ==
    LET e == eq[r.probe]
        id == r.qid
        match == matchKey(bulk.MatchOn, Bound[r.probe].name, Bound[r.probe].namespace)
        cache == [k \in a.keys |->
                    [Value |-> 1, Timestamp |-> queries[id].issued, q |-> id]]
        s == IF match \in a.keys
             THEN cache[match]
             ELSE [Value |-> 0, Timestamp |-> now, q |-> id]
    IN
    IF a.kind \in {"error", "matrix"}
    THEN [eqp |-> [e EXCEPT !.lastUpdate = now, !.mu = NoCaller],
          blk |-> [bulk EXCEPT !.lastQuery = now, !.mu = NoCaller],
          rec |-> Failed(r, IF a.kind = "error" THEN ErrQueryFailed
                            ELSE ErrResultNotParsable)]
    ELSE [eqp |-> [e EXCEPT !.lastStored = s, !.lastUpdate = now, !.mu = NoCaller],
          blk |-> [bulk EXCEPT !.valCache = cache, !.lastQuery = now,
                               !.q = id, !.mu = NoCaller],
          rec |-> Deliver(r, s)]

\* BulkValueQuery.queryForEnvironment from the answer a of the backend on,
\* and the rest of environmentQuery.sample.
bulkAnswer(c, r, a) ==
    LET e == eq[r.probe]
        id == r.qid
        match == matchKey(bulk.MatchOn, Bound[r.probe].name, Bound[r.probe].namespace)
        cache == [k \in a.keys |->
                    [Value |-> 1, Timestamp |-> queries[id].issued, q |-> id]]
        s == IF match \in a.keys
             THEN cache[match]
             ELSE [Value |-> 0, Timestamp |-> now, q |-> id]
    IN
    IF a.kind = "error"
    THEN [eqp |-> [e EXCEPT !.mu = NoCaller],
          blk |-> [bulk EXCEPT !.mu = NoCaller],
          rec |-> Failed(r, ErrQueryFailed)]
    ELSE IF a.kind = "matrix"
    THEN [eqp |-> [e EXCEPT !.mu = NoCaller],
          blk |-> [bulk EXCEPT !.mu = NoCaller],
          rec |-> Failed(r, ErrResultNotParsable)]
    ELSE [eqp |-> [e EXCEPT !.lastStored = s, !.lastUpdate = now, !.mu = NoCaller],
          blk |-> [bulk EXCEPT !.valCache = cache, !.lastQuery = now,
                               !.q = id, !.mu = NoCaller],
          rec |-> Deliver(r, s)]

\* The store is not touched by the probe layer.
StoreUnchanged ==
    UNCHANGED <<env, envInfo, destroyed, nextProbe, installed, last, pre, ret, ms,
                scall, ev, ign, kube>>

\* A goroutine starts PrometheusProbe.Value on a probe of P: directly, as
\* Environment.ResolveProbes does after the store has returned the entry
\* ("value"), or from Store.GetEnvironmentNamesWithState, under the read lock
\* of the store ("filter").
CallValue(P, K) ==
    \E c \in Callers, p \in P, op \in K :
        /\ call[c].pc = "idle"
        /\ op = "filter" => slock.writer = NoCaller
        /\ call' = [call EXCEPT ![c] =
                      [NoCall EXCEPT !.pc = "lock", !.op = op, !.probe = p,
                                     !.start = now,
                                     !.seen = eq[p].lastStored,
                                     !.seenUpdate = eq[p].lastUpdate]]
        /\ slock' = IF op = "filter"
                    THEN [slock EXCEPT !.readers = @ \cup {c}]
                    ELSE slock
        /\ fin' = NoFin
        /\ UNCHANGED <<now, eq, bulk, queries>>
        /\ StoreUnchanged

\* environmentQuery.sample: q.mu.Lock and what follows up to the backend.
Sample ==
    \E c \in Callers :
        /\ call[c].pc = "lock"
        /\ eq[call[c].probe].mu = NoCaller
        /\ LET s == sampleEnter(c, call[c]) IN
           /\ s.issue => Len(queries) < MaxQueries
           /\ eq' = [eq EXCEPT ![call[c].probe] = s.eqp]
           /\ queries' = IF s.issue
                         THEN Append(queries, Issued(call[c].probe))
                         ELSE queries
           /\ call' = [call EXCEPT ![c] = Running(s.rec)]
           /\ fin' = Returned(c, s.rec)
           /\ slock' = Released(c, s.rec)
        /\ UNCHANGED <<now, bulk>>
        /\ StoreUnchanged

\* BulkValueQuery.queryForEnvironment: q.mu.Lock and what follows up to the
\* backend.
BulkQuery ==
    \E c \in Callers :
        /\ call[c].pc = "bulklock"
        /\ bulk.mu = NoCaller
        /\ LET s == bulkEnter(c, call[c]) IN
           /\ s.issue => Len(queries) < MaxQueries
           /\ eq' = [eq EXCEPT ![call[c].probe] = s.eqp]
           /\ bulk' = s.blk
           /\ queries' = IF s.issue
                         THEN Append(queries, Issued(call[c].probe))
                         ELSE queries
           /\ call' = [call EXCEPT ![c] = Running(s.rec)]
           /\ fin' = Returned(c, s.rec)
           /\ slock' = Released(c, s.rec)
        /\ UNCHANGED now
        /\ StoreUnchanged

\* The backend answers the query a caller has in flight.
Answer ==
    \E c \in Callers :
        /\ call[c].pc = "query"
        /\ \E a \in (IF call[c].probe \in SingleProbes THEN SingleAnswers ELSE BulkAnswers) :
             LET s == IF call[c].probe \in SingleProbes
                      THEN singleAnswer(c, call[c], a)
                      ELSE bulkAnswer(c, call[c], a)
             IN /\ eq' = [eq EXCEPT ![call[c].probe] = s.eqp]
                /\ bulk' = s.blk
                /\ call' = [call EXCEPT ![c] = Running(s.rec)]
                /\ fin' = Answered(c, s.rec, a)
                /\ slock' = Released(c, s.rec)
                /\ queries' = [queries EXCEPT ![call[c].qid].state =
                                  IF s.rec.err = ErrNone THEN "answered" ELSE "failed"]
        /\ UNCHANGED now
        /\ StoreUnchanged

\* Store.DeleteEnvironment on the entry that owns a probe of P: the write lock
\* of the store is taken, then deleteEnvironment calls Destroy on the probe.
CallDelete(P) ==
    \E c \in Callers, p \in P :
        /\ call[c].pc = "idle"
        /\ slock.readers = {}
        /\ slock.writer = NoCaller
        /\ call' = [call EXCEPT ![c] =
                      [NoCall EXCEPT !.pc = "destroy", !.op = "delete", !.probe = p,
                                     !.start = now]]
        /\ slock' = [slock EXCEPT !.writer = c]
        /\ fin' = NoFin
        /\ UNCHANGED <<now, eq, bulk, queries>>
        /\ StoreUnchanged

\* environmentQuery.Destroy: q.mu.Lock, the cache reset, the probe no longer
\* registered; removeEnvironment of the single-value querier does nothing.
Destroy ==
    \E c \in Callers :
        /\ call[c].pc = "destroy"
        /\ eq[call[c].probe].mu = NoCaller
        /\ eq' = [eq EXCEPT ![call[c].probe] =
                    [lastStored |-> ZeroSample, lastUpdate |-> ZeroTime,
                     registered |-> FALSE, mu |-> NoCaller]]
        /\ call' = [call EXCEPT ![c] = NoCall]
        /\ fin' = Returned(c, [call[c] EXCEPT !.pc = "done"])
        /\ slock' = Released(c, [call[c] EXCEPT !.pc = "done"])
        /\ UNCHANGED <<now, bulk, queries>>
        /\ StoreUnchanged

\* A goroutine that can take its next step without waiting for anybody.
Ready(c) ==
    \/ call[c].pc \in {"lock", "destroy"} /\ eq[call[c].probe].mu = NoCaller
    \/ call[c].pc = "bulklock" /\ bulk.mu = NoCaller

\* The clock advances: nobody is ready to run, and no query stays in flight
\* for longer than Timeout.
Tick ==
    /\ now < StartTime + MaxTicks
    /\ \A c \in Callers : ~Ready(c)
    /\ \A c \in Callers :
          call[c].pc = "query" => Since(queries[call[c].qid].issued) < Timeout
    /\ now' = now + 1
    /\ fin' = NoFin
    /\ UNCHANGED <<eq, bulk, queries, call, slock>>
    /\ StoreUnchanged

\* One probe of a single-value querier: callers outside and inside the store
\* lock, and the deletion of the entry that owns the probe.
NextSingle ==
    \/ CallValue(SingleProbes, {"value", "filter"})
    \/ Sample
    \/ Answer
    \/ CallDelete(SingleProbes)
    \/ Destroy
    \/ Tick

SpecSingle == Init /\ [][NextSingle]_vars

\* The bulk querier constructed with either match selector.
InitBulk ==
    /\ env = NewStore.env
    /\ envInfo = NewStore.envInfo
    /\ destroyed = NewStore.destroyed
    /\ nextProbe = 1
    /\ installed = {}
    /\ last = Idle
    /\ pre = NewStore
    /\ ret = [err |-> ErrNone]
    /\ \E m \in {QueryMatchOnEnvName, QueryMatchOnNamespace} : QueryInit(m)

\* Two probes bound to one bulk querier.
NextBulk ==
    \/ CallValue(BulkProbes, {"value"})
    \/ Sample
    \/ BulkQuery
    \/ Answer
    \/ Tick

SpecBulk == InitBulk /\ [][NextBulk]_vars

\* The three locks together: status-filtered listings (store read lock, then
\* the probe, then the querier), detail requests (the probe, then the
\* querier) and deletions (store write lock, then the probe) on one probe of
\* the single-value querier and one of the bulk querier.  The clock stands
\* still in these runs: a call finds the cache of its probe expired until a
\* refresh succeeds, and fresh from then on.
OrderProbes == {"s1", "b1"}

\* Calls are started while the queries they may issue fit in MaxQueries.
Budget ==
    Len(queries) + Cardinality({c \in Callers : call[c].pc # "idle"
                                                 /\ call[c].op # "delete"}) < MaxQueries

\* A goroutine calls Store.GetEnvironmentNamesWithState, which evaluates a
\* probe of the entry under s.mu.RLock, or Environment.ResolveProbes on an
\* entry the store has returned.
StartValue ==
    \E c \in Callers, p \in OrderProbes, op \in {"value", "filter"} :
        /\ call[c].pc = "idle"
        /\ Budget
        /\ call' = [call EXCEPT ![c] =
                      [NoCall EXCEPT !.pc = IF op = "filter" THEN "rlock" ELSE "lock",
                                     !.op = op, !.probe = p, !.start = now,
                                     !.seen = eq[p].lastStored,
                                     !.seenUpdate = eq[p].lastUpdate]]
        /\ fin' = NoFin
        /\ UNCHANGED <<now, eq, bulk, queries, slock>>
        /\ StoreUnchanged

\* A goroutine calls Store.DeleteEnvironment on the entry that owns a probe
\* of the single-value querier.
StartDelete ==
    \E c \in Callers, p \in SingleProbes :
        /\ call[c].pc = "idle"
        /\ call' = [call EXCEPT ![c] =
                      [NoCall EXCEPT !.pc = "wlock", !.op = "delete", !.probe = p,
                                     !.start = now]]
        /\ fin' = NoFin
        /\ UNCHANGED <<now, eq, bulk, queries, slock>>
        /\ StoreUnchanged

\* s.mu.RLock returns: no writer holds the lock and none has announced
\* itself (a sync.RWMutex lets no new reader in while a writer waits for the
\* readers to leave).
FilterRLock ==
    \E c \in Callers :
        /\ call[c].pc = "rlock"
        /\ slock.writer = NoCaller
        /\ \A d \in Callers : call[d].pc # "wwait"
        /\ call' = [call EXCEPT ![c].pc = "lock"]
        /\ slock' = [slock EXCEPT !.readers = @ \cup {c}]
        /\ fin' = NoFin
        /\ UNCHANGED <<now, eq, bulk, queries>>
        /\ StoreUnchanged

\* s.mu.Lock, first half: the writer takes the mutex that serialises the
\* writers and announces itself to the readers.
DeleteAnnounce ==
    \E c \in Callers :
        /\ call[c].pc = "wlock"
        /\ slock.writer = NoCaller
        /\ \A d \in Callers : call[d].pc # "wwait"
        /\ call' = [call EXCEPT ![c].pc = "wwait"]
        /\ fin' = NoFin
        /\ UNCHANGED <<now, eq, bulk, queries, slock>>
        /\ StoreUnchanged

\* s.mu.Lock returns: the readers have left.
DeleteLock ==
    \E c \in Callers :
        /\ call[c].pc = "wwait"
        /\ slock.readers = {}
        /\ slock.writer = NoCaller
        /\ call' = [call EXCEPT ![c].pc = "destroy"]
        /\ slock' = [slock EXCEPT !.writer = c]
        /\ fin' = NoFin
        /\ UNCHANGED <<now, eq, bulk, queries>>
        /\ StoreUnchanged

NextOrder ==
    \/ StartValue
    \/ StartDelete
    \/ FilterRLock
    \/ DeleteAnnounce
    \/ DeleteLock
    \/ Sample
    \/ BulkQuery
    \/ Answer
    \/ Destroy

SpecOrder == Init /\ [][NextOrder]_vars

\* A step of the call goroutine c is running.
StepOf(c) ==
    /\ FilterRLock \/ DeleteAnnounce \/ DeleteLock \/ Sample \/ BulkQuery \/ Answer
       \/ Destroy
    /\ call'[c] # call[c]

\* Every goroutine that can take a step infinitely often takes it: the Go
\* scheduler runs every runnable goroutine, sync.Mutex and sync.RWMutex hand
\* the lock to a goroutine that keeps waiting for it, and the backend
\* answers every query.
SpecOrderFair == SpecOrder /\ \A c \in Callers : SF_vars(StepOf(c))

\* ---------------------------------------------------------------------------
\* Status filter (Environment.MatchesStatus)
\* ---------------------------------------------------------------------------

\* Names of status checks, in environments and in filters.
CheckNames == {"healthy", "ready", "missing"}

\* What a call of Value on a status probe comes to: the check holds, it does
\* not, or the probe fails.
Outcomes == {"true", "false", "error"}

\* Functions from a subset of D to R: Go maps with keys in D.
Maps(D, R) == UNION {[S -> R] : S \in SUBSET D}

\* Value that returns true together with its error.
ProbeValueTrueOnError(o) == [val |-> o # "false", err |-> o = "error"]

\* Probe.Value of a status probe with outcome o: the zero value false comes
\* with every error.
ProbeValue(o) == [val |-> o = "true", err |-> o = "error"]

\* Environment.MatchesStatus on status checks with the given outcomes, the
\* range loop visiting the filter in the given order.
RECURSIVE MatchesStatus(_, _, _)
MatchesStatus(checks, state, order) ==
    IF order = << >>
    THEN TRUE
    ELSE LET check == Head(order)
             filterValue == state[check]
         IN IF check \notin DOMAIN checks
            THEN IF filterValue
                 THEN FALSE
                 ELSE MatchesStatus(checks, state, Tail(order))
            ELSE IF ProbeValue(checks[check]).val # filterValue
                 THEN FALSE
                 ELSE MatchesStatus(checks, state, Tail(order))

\* An environment with up to two status checks and a filter over up to three
\* names.
InitMatch ==
    /\ env = NewStore.env
    /\ envInfo = NewStore.envInfo
    /\ destroyed = NewStore.destroyed
    /\ nextProbe = 1
    /\ installed = {}
    /\ last = Idle
    /\ pre = NewStore
    /\ ret = [err |-> ErrNone]
    /\ now = StartTime
    /\ eq = [p \in QueryProbes |->
                [lastStored |-> ZeroSample, lastUpdate |-> ZeroTime,
                 registered |-> TRUE, mu |-> NoCaller]]
    /\ bulk = [lastQuery |-> ZeroTime, valCache |-> << >>, mu |-> NoCaller,
               MatchOn |-> QueryMatchOnEnvName, q |-> 0]
    /\ queries = << >>
    /\ call = [c \in Callers |-> NoCall]
    /\ fin = NoFin
    /\ slock = [readers |-> {}, writer |-> NoCaller]
    /\ scall = [c \in Callers |-> NoStoreCall]
    /\ ev = NoEvent
    /\ ign = NewProvider
    /\ kube = NoCluster
    /\ \E checks \in Maps(CheckNames \ {"missing"}, Outcomes),
          state \in Maps(CheckNames, BOOLEAN) :
          ms = [checks |-> checks, state |-> state, done |-> FALSE, result |-> FALSE]

\* env.MatchesStatus(ctx, state)
Match ==
    /\ ~ms.done
    /\ \E order \in Orders(ms.state) :
          ms' = [ms EXCEPT !.done = TRUE,
                           !.result = MatchesStatus(ms.checks, ms.state, order)]
    /\ UNCHANGED <<env, envInfo, destroyed, nextProbe, installed, last, pre, ret,
                   now, eq, bulk, queries, call, fin, slock, scall, ev, ign, kube>>

NextMatch == Match

SpecMatch == InitMatch /\ [][NextMatch]_vars

\* The status checks with a failing probe taken for one that holds.
ChecksOfErrorAsTrue(e, out) ==
    IF e.StatusChecks = NilProbes
    THEN << >>
    ELSE [k \in DOMAIN e.StatusChecks |->
            IF e.StatusChecks[k] \in DOMAIN out /\ out[e.StatusChecks[k]] # "error"
            THEN out[e.StatusChecks[k]]
            ELSE "true"]

\* The status checks of the entry e with the outcome out gives to each probe
\* handle; a nil map has no check.
ChecksOf(e, out) ==
    IF e.StatusChecks = NilProbes
    THEN << >>
    ELSE [k \in DOMAIN e.StatusChecks |->
            IF e.StatusChecks[k] \in DOMAIN out THEN out[e.StatusChecks[k]] ELSE "error"]

\* The loop of Store.GetEnvironmentNamesWithState over the keys in the order
\* the range loop visits them, envs being the slice built so far: the key of
\* a matching entry is appended, and the slice is sorted in every round.
RECURSIVE namesWithState(_, _, _, _, _, _)
namesWithState(m, state, out, forder, order, envs) ==
    IF order = << >>
    THEN envs
    ELSE LET name == Head(order)
             next == IF MatchesStatus(ChecksOf(m[name], out), state, forder)
                     THEN Append(envs, name)
                     ELSE envs
         IN namesWithState(m, state, out, forder, Tail(order), Sort(next))

\* Store.GetEnvironmentNamesWithState
getEnvironmentNamesWithState(m, state, out, forder, order) ==
    [err |-> ErrNone, names |-> namesWithState(m, state, out, forder, order, << >>),
     state |-> state, out |-> out]

GetEnvironmentNamesWithState ==
    /\ last = Idle
    /\ \E state \in Maps(CheckNames \ {"ready"}, BOOLEAN),
          out \in [HeldStatus(env) -> Outcomes] :
        \E forder \in Orders(state), order \in Orders(env) :
            Read("namesWithState", "",
                 getEnvironmentNamesWithState(env, state, out, forder, order))

\* Environments with one status check, in two namespaces.
StatusPayload == <<[k \in {"app"} |-> "u1"], "one", "empty">>

FilterPayloads == {StatusPayload}

FilterNamespaces == {"n1", "n2"}

FilterTimes == {1}

\* The store under the mutators and the status-filtered listing.
NextFilter ==
    \/ AddEnvironment(FilterNamespaces, FilterTimes, FilterPayloads)
    \/ DeleteEnvironment
    \/ UpdateEnvironment(FilterNamespaces, FilterTimes, FilterPayloads)
    \/ GetEnvironmentNamesWithState
    \/ Return

SpecFilter == Init /\ [][NextFilter]_vars

\* ---------------------------------------------------------------------------
\* Store.mu: the calls of the store step by step
\* ---------------------------------------------------------------------------

\* Nothing was read in the last step.
NoRead == [err |-> ErrNone]

\* What the lock-level steps leave alone.
LockUnchanged ==
    UNCHANGED <<nextProbe, installed, now, eq, bulk, queries, call, fin, ms, ev, ign, kube>>

\* The lock holder has come to pc, its call having the result err so far.
Goto(c, pc, err) ==
    /\ scall' = [scall EXCEPT ![c].pc = pc]
    /\ last' = [last EXCEPT !.err = err]

\* The store becomes st.
Becomes(st) ==
    /\ env' = st.env
    /\ envInfo' = st.envInfo
    /\ destroyed' = st.destroyed

\* s.mu.Lock at the start of AddEnvironment, DeleteEnvironment and
\* UpdateEnvironment, for an environment drawn from NS, T and P.
Lock(NS, T, P) ==
    \E c \in Callers :
        /\ scall[c].pc = "idle"
        /\ slock.readers = {}
        /\ slock.writer = NoCaller
        /\ \E op \in {"add", "delete", "update"}, name \in EnvNames :
            \E n \in EnvNames, ns \in NS, t \in T, p \in P :
              LET e == IF op = "delete" THEN ZeroEnvironment
                       ELSE NewEnvironment(n, ns, t, p[1], p[2], p[3])
              IN /\ op = "add" => name = n
                 /\ last' = [op |-> op, name |-> name, env |-> e, err |-> ErrNone]
                 /\ scall' = [scall EXCEPT ![c].pc = op]
        /\ pre' = Store
        /\ slock' = [slock EXCEPT !.writer = c]
        /\ ret' = NoRead
        /\ UNCHANGED <<env, envInfo, destroyed>>
        /\ LockUnchanged

\* Store.UpdateEnvironment up to its return or to its call of addEnvironment
\* or deleteEnvironment.
UpdateStep ==
    \E c \in Callers :
        /\ scall[c].pc = "update"
        /\ IF last.name \notin DOMAIN env
           THEN Goto(c, "add", ErrNone) /\ UNCHANGED <<env, envInfo, destroyed>>
           ELSE LET u == EnvUpdateEnvironment(env[last.name], last.env) IN
                IF u.err = ErrNone
                THEN /\ Goto(c, "unlock", ErrNone)
                     /\ env' = MapPut(env, last.env.Name, u.e)
                     /\ UNCHANGED <<envInfo, destroyed>>
                ELSE IF u.err = ErrImmutableFieldChanged
                THEN Goto(c, "delete", ErrNone) /\ UNCHANGED <<env, envInfo, destroyed>>
                ELSE Goto(c, "unlock", u.err) /\ UNCHANGED <<env, envInfo, destroyed>>
        /\ ret' = NoRead
        /\ UNCHANGED <<pre, slock>>
        /\ LockUnchanged

\* Store.deleteEnvironment, called by DeleteEnvironment or by
\* UpdateEnvironment, which goes on to addEnvironment.
DeleteStep ==
    \E c \in Callers :
        /\ scall[c].pc = "delete"
        /\ LET d == deleteEnvironment(Store, last.name) IN
           /\ Becomes(d.st)
           /\ IF d.err = ErrNone /\ last.op = "update"
              THEN Goto(c, "add", ErrNone)
              ELSE Goto(c, "unlock", d.err)
        /\ ret' = NoRead
        /\ UNCHANGED <<pre, slock>>
        /\ LockUnchanged

\* Store.addEnvironment up to the assignment to the map: the validation and
\* the removal of an entry stored under the same name.
AddStep ==
    \E c \in Callers :
        /\ scall[c].pc = "add"
        /\ IF IsValid(last.env) # {}
           THEN Goto(c, "unlock", ErrInvalidEnvironment)
                /\ UNCHANGED <<env, envInfo, destroyed>>
           ELSE IF last.env.Name \in DOMAIN env
           THEN LET d == deleteEnvironment(Store, last.env.Name) IN
                /\ Becomes(d.st)
                /\ IF d.err = ErrNone
                   THEN Goto(c, "insert", ErrNone)
                   ELSE Goto(c, "unlock", d.err)
           ELSE Goto(c, "insert", ErrNone) /\ UNCHANGED <<env, envInfo, destroyed>>
        /\ ret' = NoRead
        /\ UNCHANGED <<pre, slock>>
        /\ LockUnchanged

\* Store.addEnvironment: the assignment to the map and the gauge.
InsertStep ==
    \E c \in Callers :
        /\ scall[c].pc = "insert"
        /\ env' = MapPut(env, last.env.Name, last.env)
        /\ envInfo' = envInfo \cup {<<last.env.Name, last.env.Namespace>>}
        /\ Goto(c, "unlock", ErrNone)
        /\ ret' = NoRead
        /\ UNCHANGED <<destroyed, pre, slock>>
        /\ LockUnchanged

\* The deferred s.mu.Unlock of a mutator.
Unlock ==
    \E c \in Callers :
        /\ scall[c].pc = "unlock"
        /\ scall' = [scall EXCEPT ![c] = NoStoreCall]
        /\ slock' = [slock EXCEPT !.writer = NoCaller]
        /\ ret' = NoRead
        /\ UNCHANGED <<env, envInfo, destroyed, last, pre>>
        /\ LockUnchanged

\* The reads of the store and their arguments.
Reads ==
    {<<"get", n>> : n \in EnvNames} \cup {<<"getByNamespace", ns>> : ns \in NamespaceNames}
    \cup {<<"getAll", "">>, <<"listNames", "">>, <<"count", "">>}

\* The results of the read rd on the map m, one for each order in which a
\* range loop can visit m.
ResultsOn(rd, m) ==
    CASE rd[1] = "get" -> {getEnvironment(m, rd[2])}
      [] rd[1] = "getByNamespace" ->
            {getEnvironmentByNamespace(m, rd[2], order) : order \in Orders(m)}
      [] rd[1] = "getAll" -> {getAllEnvironments(m, order) : order \in Orders(m)}
      [] rd[1] = "listNames" -> {listEnvironmentNames(m, order) : order \in Orders(m)}
      [] OTHER -> {getEnvironmentCount(m)}

\* A goroutine calls a read of the store, whichever it is; a mutator may be
\* holding the lock.
CallRead ==
    \E c \in Callers :
        /\ scall[c].pc = "idle"
        /\ scall' = [scall EXCEPT ![c] =
                       [pc |-> "rlock", during |-> slock.writer # NoCaller]]
        /\ ret' = NoRead
        /\ UNCHANGED <<env, envInfo, destroyed, last, pre, slock>>
        /\ LockUnchanged

\* RLock that does not wait for the writer.
CanRLockAnyTime(c) == TRUE

\* s.mu.RLock returns to caller c once no writer holds the lock.
CanRLock(c) == slock.writer = NoCaller

RLock ==
    \E c \in Callers :
        /\ scall[c].pc = "rlock"
        /\ CanRLock(c)
        /\ scall' = [scall EXCEPT ![c].pc = "rlocked"]
        /\ slock' = [slock EXCEPT !.readers = @ \cup {c}]
        /\ ret' = NoRead
        /\ UNCHANGED <<env, envInfo, destroyed, last, pre>>
        /\ LockUnchanged

\* The body of the read rd under the read lock, and the deferred
\* s.mu.RUnlock.
ReadStep ==
    \E c \in Callers :
        /\ scall[c].pc = "rlocked"
        /\ \E rd \in Reads :
           \E r \in ResultsOn(rd, env) :
              ret' = [err |-> r.err, by |-> c, read |-> rd,
                      during |-> scall[c].during, r |-> r]
        /\ scall' = [scall EXCEPT ![c] = NoStoreCall]
        /\ slock' = [slock EXCEPT !.readers = @ \ {c}]
        /\ UNCHANGED <<env, envInfo, destroyed, last, pre>>
        /\ LockUnchanged

\* Environments of the lock-level runs: no probes, one namespace, every name
\* (the empty name makes the environment invalid).
LockPayloads == {EmptyPayload}

LockNamespaces == {"n1"}

LockTimes == {1}

\* Mutators and readers of the store running concurrently.
NextLock ==
    \/ Lock(LockNamespaces, LockTimes, LockPayloads)
    \/ UpdateStep
    \/ DeleteStep
    \/ AddStep
    \/ InsertStep
    \/ Unlock
    \/ CallRead
    \/ RLock
    \/ ReadStep

SpecLock == Init /\ [][NextLock]_vars

\* ---------------------------------------------------------------------------
\* Namespace events (cmd/autodiscovery/events.go)
\* ---------------------------------------------------------------------------

\* Static probes: the probe of a status annotation holding true, holding
\* false, and the probe of a metadata annotation.  They are no handles of a
\* prober and take no part in the Destroy counts.
StaticTrue == -1

StaticFalse == -2

StaticMeta == -3

\* probe.NewStaticProbe on a boolean.
NewStaticProbe(v) == IF v THEN StaticTrue ELSE StaticFalse

\* EventHandler.checks and EventHandler.metadata: the names of the globally
\* configured probers.
ConfiguredChecks == {"healthy"}

ConfiguredMetadata == {"owner"}

\* Values of the label envs.sberz.de/name; the empty one stands for a
\* namespace without a name.
EventLabels == {"", "a"}

EventNamespaces == {"n1"}

EventTimes == {1}

\* The annotations status.envs.sberz.de/<check> and
\* metadata.envs.sberz.de/<name> of a namespace, the prefix cut off.
StatusAnnotations == Maps({"healthy"}, {"true", "1", "0"})

MetaAnnotations == Maps({"owner"}, {"x"})

\* The namespace objects the informer delivers.
KubeNamespaces ==
    [label : EventLabels, name : EventNamespaces, created : EventTimes,
     status : StatusAnnotations, meta : MetaAnnotations]

\* The probers whose AddEnvironment returns an error when the handler calls
\* it for the namespace ns, for each of the two maps.
Failing(ns) ==
    [checks : SUBSET (ConfiguredChecks \ DOMAIN ns.status),
     metadata : SUBSET (ConfiguredMetadata \ DOMAIN ns.meta)]

\* EventHandler.buildURLMap
buildURLMap(ns) == [k \in {"app"} |-> "u1"]

\* The second loop without the test for a probe defined by an annotation: the
\* prober is asked, and its probe replaces the static one.
BindAll(names, ann, fail, base) ==
    LET asked == names
        bound == asked \ fail
        order == CHOOSE f \in [1..Cardinality(bound) -> bound] :
                    \A i, j \in 1..Cardinality(bound) : i # j => f[i] # f[j]
    IN [calls |-> [n \in names |-> IF n \in asked THEN 1 ELSE 0],
        probes |-> [n \in bound |->
                      base + (CHOOSE i \in 1..Cardinality(bound) : order[i] = n) - 1],
        used |-> Cardinality(bound)]

\* The second loop of buildStatusChecks and of buildMetadataProbes: the
\* configured probers named in names, ann the names defined by an annotation,
\* fail the probers that fail, base the first handle a prober hands out.
\* calls counts the AddEnvironment calls on each prober.
Bind(names, ann, fail, base) ==
    LET asked == names \ ann
        bound == asked \ fail
        order == CHOOSE f \in [1..Cardinality(bound) -> bound] :
                    \A i, j \in 1..Cardinality(bound) : i # j => f[i] # f[j]
    IN [calls |-> [n \in names |-> IF n \in asked THEN 1 ELSE 0],
        probes |-> [n \in bound |->
                      base + (CHOOSE i \in 1..Cardinality(bound) : order[i] = n) - 1],
        used |-> Cardinality(bound)]

\* Two Go maps with disjoint keys put together.
MapUnion(m1, m2) ==
    [k \in DOMAIN m1 \cup DOMAIN m2 |-> IF k \in DOMAIN m1 THEN m1[k] ELSE m2[k]]

\* buildStatusChecks keeping the name of a prober that failed, with the nil
\* probe its AddEnvironment returned next to the error.
buildStatusChecksKeepingFailed(ns, fail, base) ==
    LET static == [k \in DOMAIN ns.status |->
                     NewStaticProbe(ns.status[k] = "true" \/ ns.status[k] = "1")]
        b == Bind(ConfiguredChecks, DOMAIN static, fail, base)
        failed == [k \in fail |-> NilProbe]
    IN [probes |-> MapUnion(MapUnion(static, b.probes), failed),
        calls |-> b.calls, used |-> b.used]

\* EventHandler.buildStatusChecks
buildStatusChecks(ns, fail, base) ==
    LET static == [k \in DOMAIN ns.status |->
                     NewStaticProbe(ns.status[k] = "true" \/ ns.status[k] = "1")]
        b == Bind(ConfiguredChecks, DOMAIN static, fail, base)
    IN [probes |-> MapUnion(static, b.probes), calls |-> b.calls, used |-> b.used]

\* EventHandler.buildMetadataProbes
buildMetadataProbes(ns, fail, base) ==
    LET static == [k \in DOMAIN ns.meta |-> StaticMeta]
        b == Bind(ConfiguredMetadata, DOMAIN static, fail, base)
    IN [probes |-> MapUnion(static, b.probes), calls |-> b.calls, used |-> b.used]

\* What a handler has done when it returns: the environment e it built, the
\* result r of the store, the handles its probers handed out, and the record
\* of the event.
Handled(type, old, ns, fail, sc, mp, name, e, r) ==
    /\ \A p \in Probes : r.st.destroyed[p] <= MaxDestroy
    /\ env' = r.st.env
    /\ envInfo' = r.st.envInfo
    /\ destroyed' = r.st.destroyed
    /\ nextProbe' = nextProbe + sc.used + mp.used
    /\ installed' = installed \cup (Held(r.st.env) \cap Probes)
    /\ last' = [op |-> type, name |-> name, env |-> e, err |-> r.err]
    /\ pre' = Store
    /\ ret' = [err |-> r.err]
    /\ ev' = [type |-> type, old |-> old, ns |-> ns, fail |-> fail,
              checkCalls |-> sc.calls, metaCalls |-> mp.calls]
    /\ UNCHANGED <<now, eq, bulk, queries, call, fin, slock, ms, scall, ign>>

\* The environment HandleNamespaceAdd and HandleNamespaceUpdate build.
EventEnvironment(ns, sc, mp) ==
    [Name |-> ns.label, Namespace |-> ns.name, CreatedAt |-> ns.created,
     URL |-> buildURLMap(ns), StatusChecks |-> sc.probes, MetaProbes |-> mp.probes]

\* EventHandler.HandleNamespaceAdd
HandleNamespaceAdd ==
    /\ last = Idle
    /\ \E ns \in KubeNamespaces :
       \E fail \in Failing(ns) :
          LET sc == buildStatusChecks(ns, fail.checks, nextProbe)
              mp == buildMetadataProbes(ns, fail.metadata, nextProbe + sc.used)
              e == EventEnvironment(ns, sc, mp)
          IN /\ nextProbe + sc.used + mp.used <= EventProbes + 1
             /\ Handled("add", "", ns, fail, sc, mp, e.Name, e, addEnvironment(Store, e))
    /\ UNCHANGED kube

\* EventHandler.HandleNamespaceUpdate
HandleNamespaceUpdate ==
    /\ last = Idle
    /\ \E old \in EventLabels, ns \in KubeNamespaces :
       \E fail \in Failing(ns) :
          LET sc == buildStatusChecks(ns, fail.checks, nextProbe)
              mp == buildMetadataProbes(ns, fail.metadata, nextProbe + sc.used)
              e == EventEnvironment(ns, sc, mp)
          IN /\ nextProbe + sc.used + mp.used <= EventProbes + 1
             /\ Handled("update", old, ns, fail, sc, mp, old, e,
                        updateEnvironment(Store, old, e))
    /\ UNCHANGED kube

\* EventHandler.HandleNamespaceDelete
HandleNamespaceDelete ==
    /\ last = Idle
    /\ \E ns \in KubeNamespaces :
          LET none == [probes |-> << >>, calls |-> << >>, used |-> 0] IN
          Handled("delete", "", ns, [checks |-> {}, metadata |-> {}], none, none,
                  ns.label, ZeroEnvironment, deleteEnvironment(Store, ns.label))
    /\ UNCHANGED kube

\* The handler has counted the event in eventsProcessed and returns.
EventReturn ==
    /\ last # Idle
    /\ last' = Idle
    /\ pre' = NewStore
    /\ ret' = [err |-> ErrNone]
    /\ ev' = NoEvent
    /\ UNCHANGED <<env, envInfo, destroyed, nextProbe, installed,
                   now, eq, bulk, queries, call, fin, slock, ms, scall, ign, kube>>

\* The informer delivers its events one after the other.
NextEvents ==
    \/ HandleNamespaceAdd
    \/ HandleNamespaceUpdate
    \/ HandleNamespaceDelete
    \/ EventReturn

SpecEvents == Init /\ [][NextEvents]_vars

\* The namespace objects of a cluster of two namespaces, each annotated with
\* its status check and its metadata.
ClusterObjects ==
    [label : EventLabels, name : ClusterNamespaces, created : EventTimes,
     status : {[k \in {"healthy"} |-> "true"]}, meta : {[k \in {"owner"} |-> "x"]}]

NoneFailing == [checks |-> {}, metadata |-> {}]

\* AddFunc of WatchNamespaceEvents: a namespace that carries the label
\* appears in the informer's cache, and HandleNamespaceAdd runs on it.
AddFunc ==
    /\ last = Idle
    /\ \E ns \in ClusterObjects :
          LET sc == buildStatusChecks(ns, {}, nextProbe)
              mp == buildMetadataProbes(ns, {}, nextProbe + sc.used)
              e == EventEnvironment(ns, sc, mp)
          IN /\ ~kube[ns.name].exists
             /\ Handled("add", "", ns, NoneFailing, sc, mp, e.Name, e,
                        addEnvironment(Store, e))
             /\ kube' = [kube EXCEPT ![ns.name] =
                            [@ EXCEPT !.label = ns.label, !.exists = TRUE]]

\* UpdateFunc: a namespace of the cache changes (or is resynced), and
\* HandleNamespaceUpdate runs on its old and its new object.
UpdateFunc ==
    /\ last = Idle
    /\ \E ns \in ClusterObjects :
          LET old == kube[ns.name].label
              sc == buildStatusChecks(ns, {}, nextProbe)
              mp == buildMetadataProbes(ns, {}, nextProbe + sc.used)
              e == EventEnvironment(ns, sc, mp)
          IN /\ kube[ns.name].exists
             /\ Handled("update", old, ns, NoneFailing, sc, mp, old, e,
                        updateEnvironment(Store, old, e))
             /\ kube' = [kube EXCEPT ![ns.name] =
                            [@ EXCEPT !.label = ns.label,
                                      !.changed = @ \/ ns.label # old]]

\* DeleteFunc: a namespace leaves the cache, and HandleNamespaceDelete runs
\* on its last object.
DeleteFunc ==
    /\ last = Idle
    /\ \E ns \in ClusterObjects :
          LET none == [probes |-> << >>, calls |-> << >>, used |-> 0] IN
          /\ kube[ns.name].exists
          /\ ns.label = kube[ns.name].label
          /\ Handled("delete", "", ns, NoneFailing, none, none,
                     ns.label, ZeroEnvironment, deleteEnvironment(Store, ns.label))
          /\ kube' = [kube EXCEPT ![ns.name] =
                         [@ EXCEPT !.exists = FALSE, !.changed = TRUE]]

\* The informer delivers the events of the cluster one after the other.
NextCluster ==
    \/ AddFunc
    \/ UpdateFunc
    \/ DeleteFunc
    \/ EventReturn

SpecCluster == Init /\ [][NextCluster]_vars

\* ---------------------------------------------------------------------------
\* The status filter of a request (cmd/autodiscovery/server.go)
\* ---------------------------------------------------------------------------

\* A string is the sequence of its characters.  "a" is a character of a
\* name; blank, comma and exclamation mark are the characters the parser
\* looks at.
Chars == {"a", " ", ",", "!"}

\* Strings of at most n characters.
Strings(n) == UNION {[1..k -> Chars] : k \in 0..n}

\* r.URL.Query()[param]: the values of the occurrences of the parameter, in
\* the order of the request.
QueryValues == UNION {[1..k -> Strings(MaxLen)] : k \in 0..MaxValues}

\* strings.Join(values, ",")
RECURSIVE Join(_)
Join(values) ==
    IF values = << >>
    THEN << >>
    ELSE IF Len(values) = 1
         THEN values[1]
         ELSE values[1] \o <<",">> \o Join(Tail(values))

\* strings.SplitSeq(s, ","): the pieces between the commas, cur being the
\* piece under construction.
RECURSIVE SplitSeq(_, _)
SplitSeq(s, cur) ==
    IF s = << >>
    THEN <<cur>>
    ELSE IF Head(s) = ","
         THEN <<cur>> \o SplitSeq(Tail(s), << >>)
         ELSE SplitSeq(Tail(s), Append(cur, Head(s)))

RECURSIVE TrimLeft(_)
TrimLeft(s) == IF s # << >> /\ Head(s) = " " THEN TrimLeft(Tail(s)) ELSE s

RECURSIVE TrimRight(_)
TrimRight(s) ==
    IF s # << >> /\ s[Len(s)] = " " THEN TrimRight(SubSeq(s, 1, Len(s) - 1)) ELSE s

\* strings.TrimSpace
TrimSpace(s) == TrimRight(TrimLeft(s))

\* strings.CutPrefix(f, "!")
CutPrefix(f) ==
    IF f # << >> /\ Head(f) = "!"
    THEN [after |-> Tail(f), ok |-> TRUE]
    ELSE [after |-> f, ok |-> FALSE]

\* The body of the loop without the second TrimSpace.
filterTokenUntrimmed(filter, piece) ==
    LET f == TrimSpace(piece)
        cut == CutPrefix(f)
    IN IF f = << >>
       THEN filter
       ELSE IF cut.ok
            THEN IF cut.after = << >>
                 THEN filter
                 ELSE MapPut(filter, cut.after, FALSE)
            ELSE MapPut(filter, f, TRUE)

\* The body of the loop of parseStatusFilter on one piece of the query.
filterToken(filter, piece) ==
    LET f == TrimSpace(piece)
        cut == CutPrefix(f)
    IN IF f = << >>
       THEN filter
       ELSE IF cut.ok
            THEN IF TrimSpace(cut.after) = << >>
                 THEN filter
                 ELSE MapPut(filter, TrimSpace(cut.after), FALSE)
            ELSE MapPut(filter, f, TRUE)

RECURSIVE filterTokens(_, _)
filterTokens(filter, pieces) ==
    IF pieces = << >>
    THEN filter
    ELSE filterTokens(filterToken(filter, Head(pieces)), Tail(pieces))

\* parseStatusFilter on the values of the parameter.
parseStatusFilter(values) ==
    LET query == Join(values) IN
    IF query = << >>
    THEN << >>
    ELSE filterTokens(<< >>, SplitSeq(query, << >>))

\* A request whose parameter has the given values has arrived.
InitParse ==
    /\ env = NewStore.env
    /\ envInfo = NewStore.envInfo
    /\ destroyed = NewStore.destroyed
    /\ nextProbe = 1
    /\ installed = {}
    /\ last = Idle
    /\ pre = NewStore
    /\ QueryInit(QueryMatchOnEnvName)
    /\ \E values \in QueryValues : ret = [err |-> ErrNone, values |-> values]

\* The handler parses the parameter.
ParseStatusFilter ==
    /\ "values" \in DOMAIN ret
    /\ "filter" \notin DOMAIN ret
    /\ ret' = [err |-> ErrNone, values |-> ret.values,
               filter |-> parseStatusFilter(ret.values)]
    /\ UNCHANGED <<env, envInfo, destroyed, nextProbe, installed, last, pre, qvars>>

NextParse == ParseStatusFilter

SpecParse == InitParse /\ [][NextParse]_vars

\* ---------------------------------------------------------------------------
\* The HTTP handlers (cmd/autodiscovery/server.go)
\* ---------------------------------------------------------------------------

\* How the names of the status checks are written in a request: "healthy" is
\* the check the environments have, "missing" one that none has.
Spelling == [n \in {"healthy", "missing"} |->
               IF n = "healthy" THEN <<"a">> ELSE <<"a", "a">>]

\* The values of the parameters status and withStatus in the requests: no
\* occurrence, one name with and without the exclamation mark, both names in
\* two occurrences, and tokens without a name.
StatusQueries ==
    {<< >>,
     << <<"a">> >>,
     << <<"!", "a">> >>,
     << <<" ", "a", ",">>, <<"!", "a", "a">> >>,
     << <<"!", " ", "a">>, <<"a", "a">> >>,
     << <<",", "!", " ">> >>}

\* The filter with every name required to be true, whatever its token.
FilterOnIgnoringSign(filter) ==
    [n \in {c \in DOMAIN Spelling : Spelling[c] \in DOMAIN filter} |-> TRUE]

\* The parsed filter with its keys as the names they spell.
FilterOn(filter) ==
    [n \in {c \in DOMAIN Spelling : Spelling[c] \in DOMAIN filter} |->
        filter[Spelling[n]]]

\* The nil map[string]bool handleGetEnvironment passes to ResolveProbes.
NilStatus == [k \in {"<nil>"} |-> FALSE]

\* The keys a range loop over a probe map visits: none for a nil map.
ProbesOf(pm) == IF pm = NilProbes THEN << >> ELSE pm

\* The outcome of Value on the probe handle p.
OutcomeOf(p, out) == IF p \in DOMAIN out THEN out[p] ELSE "error"

\* Probe.LastUpdate of the probe handle p; the time a probe reports is named
\* after the probe.
LastUpdate(p) == p

\* A loop of Environment.ResolveProbes over a probe map in the given order,
\* acc holding the values read so far: a name the status map excludes is
\* passed over, and the first error ends the loop.
RECURSIVE resolveLoop(_, _, _, _, _)
resolveLoop(probes, status, out, order, acc) ==
    IF order = << >>
    THEN acc
    ELSE LET name == Head(order)
             skip == status # NilStatus /\ (name \notin DOMAIN status \/ ~status[name])
             v == ProbeValue(OutcomeOf(probes[name], out))
         IN IF skip
            THEN resolveLoop(probes, status, out, Tail(order), acc)
            ELSE IF v.err
                 THEN [acc EXCEPT !.err = TRUE, !.seen = @ \cup {probes[name]}]
                 ELSE resolveLoop(probes, status, out, Tail(order),
                                  [vals |-> MapPut(acc.vals, name, v.val),
                                   updated |-> MapPut(acc.updated, name, LastUpdate(probes[name])),
                                   seen |-> acc.seen \cup {probes[name]},
                                   err |-> FALSE])

NothingResolved == [vals |-> << >>, updated |-> << >>, seen |-> {}, err |-> FALSE]

\* The nil map of EnvironmentResponse.Meta.
NilMeta == [k \in {"<nil>"} |-> FALSE]

\* Environment.ResolveProbes: the metadata probes first when includeMeta is
\* set, then the status checks.  seen is the set of probes Value was called
\* on.
ResolveProbes(e, includeMeta, status, out, morder, sorder) ==
    LET meta == IF includeMeta
                THEN resolveLoop(ProbesOf(e.MetaProbes), NilStatus, out, morder,
                                 NothingResolved)
                ELSE NothingResolved
        checks == resolveLoop(ProbesOf(e.StatusChecks), status, out, sorder,
                              NothingResolved)
        res == [Environment |-> e, Status |-> << >>, StatusUpdated |-> << >>,
                Meta |-> IF includeMeta THEN meta.vals ELSE NilMeta]
    IN IF meta.err
       THEN [err |-> TRUE, res |-> res, seen |-> meta.seen]
       ELSE IF e.StatusChecks # NilProbes /\ DOMAIN e.StatusChecks = {}
            THEN [err |-> FALSE, res |-> res, seen |-> meta.seen]
            ELSE IF checks.err
                 THEN [err |-> TRUE, res |-> res, seen |-> meta.seen \cup checks.seen]
                 ELSE [err |-> FALSE,
                       res |-> [res EXCEPT !.Status = checks.vals,
                                           !.StatusUpdated = checks.updated],
                       seen |-> meta.seen \cup checks.seen]

\* encoding/json on an EnvironmentResponse: the key meta is left out when the
\* map is nil or empty (omitempty).
encodeResponse(res) ==
    LET doc == [name |-> res.Environment.Name,
                namespace |-> res.Environment.Namespace,
                status |-> res.Status,
                statusUpdatedAt |-> res.StatusUpdated]
    IN IF res.Meta = NilMeta \/ DOMAIN res.Meta = {}
       THEN doc
       ELSE [name |-> doc.name, namespace |-> doc.namespace, status |-> doc.status,
             statusUpdatedAt |-> doc.statusUpdatedAt, meta |-> res.Meta]

\* The orders in which the loops of ResolveProbes may visit a probe map.
ProbeOrders(pm) == Orders(ProbesOf(pm))

\* The namespace parameter of a request; empty when absent.
QueryNamespaces == {"", "n1", "n2"}

\* The body with the status filter taken before the namespace.
listEnvironmentNamesResponseStatusFirst(m, namespace, values, out, forder, order) ==
    LET filterStatus == FilterOn(parseStatusFilter(values))
        found == getEnvironmentByNamespace(m, namespace, order)
        envs == IF DOMAIN filterStatus # {}
                THEN getEnvironmentNamesWithState(m, filterStatus, out, forder, order).names
                ELSE IF namespace # ""
                     THEN IF found.err = ErrNone THEN <<found.env.Name>> ELSE << >>
                     ELSE listEnvironmentNames(m, order).names
    IN [err |-> ErrNone, code |-> 200, environments |-> envs,
        namespace |-> namespace, values |-> values, out |-> out]

\* The body of handleListEnvironmentNames.
listEnvironmentNamesResponse(m, namespace, values, out, forder, order) ==
    LET filterStatus == FilterOn(parseStatusFilter(values))
        found == getEnvironmentByNamespace(m, namespace, order)
        envs == IF namespace # ""
                THEN IF found.err = ErrNone
                     THEN IF DOMAIN filterStatus = {}
                             \/ MatchesStatus(ChecksOf(found.env, out), filterStatus, forder)
                          THEN <<found.env.Name>>
                          ELSE << >>
                     ELSE << >>
                ELSE IF DOMAIN filterStatus # {}
                     THEN getEnvironmentNamesWithState(m, filterStatus, out, forder, order).names
                     ELSE listEnvironmentNames(m, order).names
    IN [err |-> ErrNone, code |-> 200, environments |-> envs,
        namespace |-> namespace, values |-> values, out |-> out]

\* GET /v1/environment
handleListEnvironmentNames ==
    /\ last = Idle
    /\ \E namespace \in QueryNamespaces, values \in StatusQueries,
          out \in [HeldStatus(env) -> Outcomes] :
        \E forder \in Orders(FilterOn(parseStatusFilter(values))), order \in Orders(env) :
            Read("list", "",
                 listEnvironmentNamesResponse(env, namespace, values, out, forder, order))

\* The names a request path can carry: the wildcard of the route matches no
\* empty segment.
PathNames == EnvNames \ {""}

\* The body answering with the document whatever ResolveProbes returned.
getEnvironmentResponsePartial(m, name, out, morder, sorder) ==
    LET got == getEnvironment(m, name)
        es == ResolveProbes(got.env, TRUE, NilStatus, out, morder, sorder)
    IN IF got.err # ErrNone
       THEN [err |-> ErrNone, code |-> 404, name |-> name, out |-> out, seen |-> {}]
       ELSE [err |-> ErrNone, code |-> 200, name |-> name, out |-> out,
             seen |-> es.seen, document |-> encodeResponse(es.res)]

\* The body of handleGetEnvironment.
getEnvironmentResponse(m, name, out, morder, sorder) ==
    LET got == getEnvironment(m, name)
        es == ResolveProbes(got.env, TRUE, NilStatus, out, morder, sorder)
    IN IF got.err # ErrNone
       THEN [err |-> ErrNone, code |-> 404, name |-> name, out |-> out, seen |-> {}]
       ELSE IF es.err
            THEN [err |-> ErrNone, code |-> 500, name |-> name, out |-> out,
                  seen |-> es.seen]
            ELSE [err |-> ErrNone, code |-> 200, name |-> name, out |-> out,
                  seen |-> es.seen, document |-> encodeResponse(es.res)]

\* GET /v1/environment/{name}
handleGetEnvironment ==
    /\ last = Idle
    /\ \E name \in PathNames :
        LET e == getEnvironment(env, name).env IN
        \E out \in [(MapRange(e.StatusChecks) \cup MapRange(e.MetaProbes)) \ {NilProbe}
                       -> Outcomes],
           morder \in ProbeOrders(e.MetaProbes), sorder \in ProbeOrders(e.StatusChecks) :
            Read("detail", name, getEnvironmentResponse(env, name, out, morder, sorder))

\* The loop of handleGetAllEnvironments over envs, res being the documents
\* appended so far and seen the probes evaluated so far.
RECURSIVE resolveAll(_, _, _, _, _, _)
resolveAll(envs, includeStatus, out, sorders, res, seen) ==
    IF envs = << >>
    THEN [err |-> FALSE, res |-> res, seen |-> seen]
    ELSE LET es == ResolveProbes(Head(envs), FALSE, includeStatus, out, << >>,
                                 Head(sorders))
         IN IF es.err
            THEN [err |-> TRUE, res |-> res, seen |-> seen \cup es.seen]
            ELSE resolveAll(Tail(envs), includeStatus, out, Tail(sorders),
                            Append(res, encodeResponse(es.res)), seen \cup es.seen)

\* The body of handleGetAllEnvironments.
getAllEnvironmentsResponse(m, values, out, order, sorders) ==
    LET includeStatus == FilterOn(parseStatusFilter(values))
        envs == getAllEnvironments(m, order).envs
        all == resolveAll(envs, includeStatus, out, sorders, << >>, {})
    IN IF all.err
       THEN [err |-> ErrNone, code |-> 500, values |-> values, out |-> out,
             seen |-> all.seen]
       ELSE [err |-> ErrNone, code |-> 200, values |-> values, out |-> out,
             seen |-> all.seen, environments |-> all.res]

\* GET /v1/environment/all
handleGetAllEnvironments ==
    /\ last = Idle
    /\ \E values \in StatusQueries, out \in [HeldStatus(env) -> Outcomes],
          order \in Orders(env) :
        \E sorders \in {f \in [1..Len(order) ->
                                 UNION {ProbeOrders(env[k].StatusChecks) : k \in DOMAIN env}] :
                           \A i \in 1..Len(order) :
                               f[i] \in ProbeOrders(env[order[i]].StatusChecks)} :
            Read("all", "", getAllEnvironmentsResponse(env, values, out, order, sorders))

\* Environments with one status check and one metadata probe, and with an
\* empty map of status checks and one metadata probe, in two namespaces.
MetaPayload == <<[k \in {"app"} |-> "u1"], "empty", "one">>

HTTPPayloads == {ProbePayload, MetaPayload}

HTTPNamespaces == {"n1", "n2"}

HTTPTimes == {1}

\* The store under the event handlers' calls and the three GET endpoints.
NextHTTP ==
    \/ AddEnvironment(HTTPNamespaces, HTTPTimes, HTTPPayloads)
    \/ DeleteEnvironment
    \/ UpdateEnvironment(HTTPNamespaces, HTTPTimes, HTTPPayloads)
    \/ handleListEnvironmentNames
    \/ handleGetEnvironment
    \/ handleGetAllEnvironments
    \/ Return

SpecHTTP == Init /\ [][NextHTTP]_vars

\* ---------------------------------------------------------------------------
\* Ignition (internal/ignition, handleIgnitionEnvironment)
\* ---------------------------------------------------------------------------

\* The provider behind the instrumented one: the built-in PrometheusProvider,
\* or another implementation of ignition.Provider whose Trigger returns an
\* error.
Providers == {"prometheus", "failing"}

\* The label provider of the counter: string(cfg.Type).
ProviderName == "prometheus"

\* CounterVec.WithLabelValues(labels).Inc()
Inc(counters, labels) ==
    MapPut(counters, labels, IF labels \in DOMAIN counters THEN counters[labels] + 1 ELSE 1)

\* PrometheusProvider.Trigger setting the gauge before it looks at the
\* request.
PrometheusProviderTriggerSetFirst(g, req) ==
    [err |-> IF req.Environment = "" THEN ErrEnvironmentRequired ELSE ErrNone,
     g |-> [g EXCEPT !.requested = MapPut(@, <<req.Environment, req.Namespace>>, now)]]

\* PrometheusProvider.Trigger on the metrics g.
PrometheusProviderTrigger(g, req) ==
    IF req.Environment = ""
    THEN [err |-> ErrEnvironmentRequired, g |-> g]
    ELSE [err |-> ErrNone,
          g |-> [g EXCEPT !.requested = MapPut(@, <<req.Environment, req.Namespace>>, now)]]

\* Provider.Trigger of the provider next.
ProviderTrigger(g, req, next) ==
    IF next = "prometheus"
    THEN PrometheusProviderTrigger(g, req)
    ELSE [err |-> ErrProviderFailed, g |-> g]

\* instrumentedProvider.Trigger: the call is passed on and counted under the
\* status of its result.
instrumentedProviderTrigger(g, req, next) ==
    LET r == ProviderTrigger(g, req, next)
        status == IF r.err # ErrNone THEN "error" ELSE "accepted"
    IN [err |-> r.err,
        g |-> [r.g EXCEPT !.triggers = Inc(@, <<ProviderName, req.Environment,
                                               req.Namespace, status>>),
                          !.calls = @ + 1,
                          !.last = [req |-> req, next |-> next, err |-> r.err]]]

\* The body of the handler calling the provider before it looks the
\* environment up.
ignitionResponseUnchecked(m, g, name, next) ==
    LET got == getEnvironment(m, name)
        t == instrumentedProviderTrigger(g, [Environment |-> name, Namespace |-> ""], next)
    IN IF got.err # ErrNone
       THEN [err |-> ErrNone, code |-> 404, name |-> name, before |-> g.calls, g |-> t.g]
       ELSE IF t.err # ErrNone
            THEN [err |-> ErrNone, code |-> 500, name |-> name, before |-> g.calls,
                  g |-> t.g]
            ELSE [err |-> ErrNone, code |-> 202, name |-> name, before |-> g.calls,
                  g |-> t.g]

\* The body of handleIgnitionEnvironment: the response, and the metrics of
\* the provider after it.
ignitionResponse(m, g, name, next) ==
    LET got == getEnvironment(m, name)
        t == instrumentedProviderTrigger(
                 g, [Environment |-> got.env.Name, Namespace |-> got.env.Namespace], next)
    IN IF got.err # ErrNone
       THEN [err |-> ErrNone, code |-> 404, name |-> name, before |-> g.calls, g |-> g]
       ELSE IF t.err # ErrNone
            THEN [err |-> ErrNone, code |-> 500, name |-> name, before |-> g.calls,
                  g |-> t.g]
            ELSE [err |-> ErrNone, code |-> 202, name |-> name, before |-> g.calls,
                  g |-> t.g]

\* POST /v1/environment/{name}/ignition
handleIgnitionEnvironment ==
    /\ last = Idle
    /\ ign.calls < MaxTriggers
    /\ \E name \in PathNames, next \in Providers :
          LET r == ignitionResponse(env, ign, name, next) IN
          /\ last' = [op |-> "ignition", name |-> name, env |-> ZeroEnvironment,
                      err |-> ErrNone]
          /\ pre' = Store
          /\ ret' = [err |-> ErrNone, code |-> r.code, name |-> r.name,
                     before |-> r.before]
          /\ ign' = r.g
    /\ UNCHANGED <<env, envInfo, destroyed, nextProbe, installed,
                   now, eq, bulk, queries, call, fin, slock, ms, scall, ev, kube>>

\* The requests of a caller of the provider other than the handler.
TriggerRequests == [Environment : {"", "a"}, Namespace : {"n1"}]

\* Provider.Trigger on the provider NewProvider returned.
Trigger ==
    /\ last = Idle
    /\ ign.calls < MaxTriggers
    /\ \E req \in TriggerRequests, next \in Providers :
          LET r == instrumentedProviderTrigger(ign, req, next) IN
          /\ last' = [op |-> "trigger", name |-> req.Environment,
                      env |-> ZeroEnvironment, err |-> r.err]
          /\ pre' = Store
          /\ ret' = [err |-> r.err]
          /\ ign' = r.g
    /\ UNCHANGED <<env, envInfo, destroyed, nextProbe, installed,
                   now, eq, bulk, queries, call, fin, slock, ms, scall, ev, kube>>

IgnitionPayloads == {EmptyPayload}

IgnitionNamespaces == {"n1"}

IgnitionTimes == {1}

\* The store under its mutators, the ignition endpoint and direct calls of
\* the provider.
NextIgnition ==
    \/ AddEnvironment(IgnitionNamespaces, IgnitionTimes, IgnitionPayloads)
    \/ DeleteEnvironment
    \/ UpdateEnvironment(IgnitionNamespaces, IgnitionTimes, IgnitionPayloads)
    \/ handleIgnitionEnvironment
    \/ Trigger
    \/ Return

SpecIgnition == Init /\ [][NextIgnition]_vars

\* ---------------------------------------------------------------------------
\* The server: routes and middleware (NewServerHandler)
\* ---------------------------------------------------------------------------

Methods == {"GET", "POST", "OPTIONS"}

\* The paths of the requests, by the pattern of the mux they fit; "other" fits
\* none.
Routes == {"health", "list", "all", "detail", "ignition", "other"}

\* The method a pattern of the mux is registered for.
RouteMethod ==
    [r \in Routes \ {"other"} |-> IF r = "ignition" THEN "POST" ELSE "GET"]

\* What the handlers draw besides the request: the outcome of every probe,
\* the orders of the range loops, the provider behind the instrumented one.
ServerInputs(m) ==
    [values : {<< >>, << <<"a">> >>},
     namespace : {"", "n1"},
     out : [Held(m) -> {"true", "error"}],
     order : Orders(m),
     next : Providers]

\* The orders the loops over the probe maps of the entries take: every map
\* of these runs has at most one key.
OneOrder(pm) == CHOOSE o \in ProbeOrders(pm) : TRUE

\* http.ServeMux: the handler registered for the method and the path, 405
\* for a path registered for another method, 404 for any other path.  g is
\* the ignition provider; the response names the handler that ran.
ServeMux(m, g, method, route, name, in) ==
    LET none == [err |-> ErrNone, seen |-> {}, g |-> g]
        forder == CHOOSE o \in Orders(FilterOn(parseStatusFilter(in.values))) : TRUE
    IN IF route = "other"
       THEN none @@ [code |-> 404, handler |-> "mux"]
       ELSE IF RouteMethod[route] # method
       THEN none @@ [code |-> 405, handler |-> "mux"]
       ELSE CASE route = "health" -> none @@ [code |-> 200, handler |-> "health"]
              [] route = "list" ->
                    none @@ [code |-> listEnvironmentNamesResponse(
                                          m, in.namespace, in.values, in.out, forder,
                                          in.order).code,
                             handler |-> "list"]
              [] route = "all" ->
                    LET r == getAllEnvironmentsResponse(
                                 m, in.values, in.out, in.order,
                                 [i \in 1..Len(in.order) |->
                                    OneOrder(m[in.order[i]].StatusChecks)])
                    IN [err |-> ErrNone, seen |-> r.seen, g |-> g, code |-> r.code,
                        handler |-> "all"]
              [] route = "detail" ->
                    LET e == getEnvironment(m, name).env
                        r == getEnvironmentResponse(m, name, in.out,
                                                    OneOrder(e.MetaProbes),
                                                    OneOrder(e.StatusChecks))
                    IN [err |-> ErrNone, seen |-> r.seen, g |-> g, code |-> r.code,
                        handler |-> "detail"]
              [] route = "ignition" ->
                    LET r == ignitionResponse(m, g, name, in.next)
                    IN [err |-> ErrNone, seen |-> {}, g |-> r.g, code |-> r.code,
                        handler |-> "ignition"]

\* The headers middlewareCORS sets on every response.
CORSHeader ==
    [k \in {"Access-Control-Allow-Origin", "Access-Control-Max-Age"} |->
        IF k = "Access-Control-Allow-Origin" THEN "*" ELSE "86400"]

\* middlewareCORS passing a preflight request on like any other.
middlewareCORSPassing(m, g, method, route, name, in) ==
    ServeMux(m, g, IF method = "OPTIONS" THEN RouteMethod["list"] ELSE method,
             IF method = "OPTIONS" THEN "list" ELSE route, name, in)
        @@ [header |-> CORSHeader]

\* middlewareCORS around the mux: the headers are set, a preflight request is
\* answered 204 at once, any other request goes to the mux.
middlewareCORS(m, g, method, route, name, in) ==
    IF method = "OPTIONS"
    THEN [err |-> ErrNone, seen |-> {}, g |-> g, code |-> 204, handler |-> "none",
          header |-> CORSHeader]
    ELSE ServeMux(m, g, method, route, name, in) @@ [header |-> CORSHeader]

\* A request served by the handler NewServerHandler returns.
ServeHTTP ==
    /\ last = Idle
    /\ \E method \in Methods, route \in Routes, name \in PathNames,
          in \in ServerInputs(env) :
          /\ method = "POST" /\ route = "ignition" => ign.calls < MaxTriggers
          /\ LET r == middlewareCORS(env, ign, method, route, name, in) IN
             /\ last' = [op |-> "serve", name |-> name, env |-> ZeroEnvironment,
                         err |-> ErrNone]
             /\ pre' = Store
             /\ ret' = [err |-> ErrNone, code |-> r.code, header |-> r.header,
                        handler |-> r.handler, seen |-> r.seen, method |-> method,
                        route |-> route, before |-> ign]
             /\ ign' = r.g
    /\ UNCHANGED <<env, envInfo, destroyed, nextProbe, installed,
                   now, eq, bulk, queries, call, fin, slock, ms, scall, ev, kube>>

ServerPayloads == {ProbePayload}

ServerNamespaces == {"n1"}

ServerTimes == {1}

\* The store under add and delete, and the server.
NextServer ==
    \/ AddEnvironment(ServerNamespaces, ServerTimes, ServerPayloads)
    \/ DeleteEnvironment
    \/ ServeHTTP
    \/ Return

SpecServer == Init /\ [][NextServer]_vars

\* ---------------------------------------------------------------------------
\* Metadata annotations (parseMetadataAnnotation)
\* ---------------------------------------------------------------------------

\* The characters of an annotation value.  The literals true and null are
\* one character each; the annotation has digits, a letter, the quote, the
\* brackets of objects and arrays, and the blank.
JSONChars == {"true", "null", "0", "7", "x", "\"", "{", "}", "[", "]", " "}

Digits == {"0", "7"}

\* Annotation values of at most MaxLen characters.
AnnotationValues == UNION {[1..k -> JSONChars] : k \in 0..MaxLen}

\* The number a run of digits denotes.
RECURSIVE DigitsValue(_, _)
DigitsValue(ds, acc) ==
    IF ds = << >>
    THEN acc
    ELSE DigitsValue(Tail(ds), 10 * acc + (IF Head(ds) = "7" THEN 7 ELSE 0))

\* The longest run of digits s starts with.
RECURSIVE DigitRun(_)
DigitRun(s) ==
    IF s # << >> /\ Head(s) \in Digits THEN <<Head(s)>> \o DigitRun(Tail(s)) ELSE << >>

SyntaxError == [ok |-> FALSE, kind |-> "none", val |-> 0, rest |-> << >>]

\* The decoder of encoding/json on one value at the start of s: what it
\* decodes to and what is left of s behind it.  A number has no leading
\* zero; without colon and comma an object is empty and an array has at most
\* one element.
RECURSIVE decodeValue(_)
decodeValue(s) ==
    IF s = << >>
    THEN SyntaxError
    ELSE LET c == Head(s)
             r == Tail(s)
         IN CASE c = "true" -> [ok |-> TRUE, kind |-> "bool", val |-> TRUE, rest |-> r]
              [] c = "null" -> [ok |-> TRUE, kind |-> "null", val |-> 0, rest |-> r]
              [] c = "0" -> [ok |-> TRUE, kind |-> "number", val |-> 0, rest |-> r]
              [] c = "7" ->
                    LET run == DigitRun(s) IN
                    [ok |-> TRUE, kind |-> "number", val |-> DigitsValue(run, 0),
                     rest |-> SubSeq(s, Len(run) + 1, Len(s))]
              [] c = "\"" ->
                    LET closing == {i \in 1..Len(r) : r[i] = "\""} IN
                    IF closing = {}
                    THEN SyntaxError
                    ELSE LET i == CHOOSE k \in closing : \A l \in closing : k <= l IN
                         [ok |-> TRUE, kind |-> "string", val |-> SubSeq(r, 1, i - 1),
                          rest |-> SubSeq(r, i + 1, Len(r))]
              [] c = "{" ->
                    LET in == TrimLeft(r) IN
                    IF in # << >> /\ Head(in) = "}"
                    THEN [ok |-> TRUE, kind |-> "object", val |-> 0, rest |-> Tail(in)]
                    ELSE SyntaxError
              [] c = "[" ->
                    LET in == TrimLeft(r) IN
                    IF in # << >> /\ Head(in) = "]"
                    THEN [ok |-> TRUE, kind |-> "array", val |-> 0, rest |-> Tail(in)]
                    ELSE LET el == decodeValue(in)
                             after == TrimLeft(el.rest)
                         IN IF el.ok /\ after # << >> /\ Head(after) = "]"
                            THEN [ok |-> TRUE, kind |-> "array", val |-> 0,
                                  rest |-> Tail(after)]
                            ELSE SyntaxError
              [] OTHER -> SyntaxError

\* json.Unmarshal into an any: one value with blanks around it and nothing
\* else.
Unmarshal(value) ==
    LET v == decodeValue(TrimLeft(value)) IN
    IF v.ok /\ TrimLeft(v.rest) = << >>
    THEN [err |-> FALSE, kind |-> v.kind, val |-> v.val]
    ELSE [err |-> TRUE, kind |-> "none", val |-> 0]

\* probe.WrapProbe(probe.NewStaticProbe(v)) on a value of the given type.
StaticMetadataProbe(type, v) == [type |-> type, value |-> v]

\* parseMetadataAnnotation falling back to the raw string for a JSON string
\* as well.
parseMetadataAnnotationStringsRaw(value) ==
    LET jsonVal == Unmarshal(value) IN
    IF jsonVal.err
    THEN StaticMetadataProbe("string", value)
    ELSE CASE jsonVal.kind = "bool" -> StaticMetadataProbe("bool", jsonVal.val)
           [] jsonVal.kind = "number" -> StaticMetadataProbe("float64", jsonVal.val)
           [] OTHER -> StaticMetadataProbe("string", value)

\* parseMetadataAnnotation
parseMetadataAnnotation(value) ==
    LET jsonVal == Unmarshal(value) IN
    IF jsonVal.err
    THEN StaticMetadataProbe("string", value)
    ELSE CASE jsonVal.kind = "bool" -> StaticMetadataProbe("bool", jsonVal.val)
           [] jsonVal.kind = "number" -> StaticMetadataProbe("float64", jsonVal.val)
           [] jsonVal.kind = "string" -> StaticMetadataProbe("string", jsonVal.val)
           [] OTHER -> StaticMetadataProbe("string", value)

\* metadataProbe.Value on a wrapped static probe.
MetadataValue(p) == [type |-> p.type, val |-> p.value, err |-> FALSE]

\* A namespace carries a metadata annotation with the given value.
InitAnnotation ==
    /\ env = NewStore.env
    /\ envInfo = NewStore.envInfo
    /\ destroyed = NewStore.destroyed
    /\ nextProbe = 1
    /\ installed = {}
    /\ last = Idle
    /\ pre = NewStore
    /\ QueryInit(QueryMatchOnEnvName)
    /\ \E value \in AnnotationValues : ret = [err |-> ErrNone, annotation |-> value]

\* The annotation is parsed and the value of its probe is read.
ParseMetadataAnnotation ==
    /\ "annotation" \in DOMAIN ret
    /\ "got" \notin DOMAIN ret
    /\ ret' = [err |-> ErrNone, annotation |-> ret.annotation,
               got |-> MetadataValue(parseMetadataAnnotation(ret.annotation))]
    /\ UNCHANGED <<env, envInfo, destroyed, nextProbe, installed, last, pre, qvars>>

NextAnnotation == ParseMetadataAnnotation

SpecAnnotation == InitAnnotation /\ [][NextAnnotation]_vars

\* ---------------------------------------------------------------------------
\* Properties
\* ---------------------------------------------------------------------------

\* The last call was the mutator op and has returned err.
Did(op, err) == last.op = op /\ last.err = err

\* C1: any two distinct live entries have different names and different
\* namespaces.
C1_UniqueNamesAndNamespaces ==
    \A k1, k2 \in DOMAIN env :
        k1 # k2 => /\ env[k1].Name # env[k2].Name
                   /\ env[k1].Namespace # env[k2].Namespace

\* C2: for every name n, get(n) succeeds iff a live entry whose name is n
\* exists, and the entry it returns has name n.
C2_GetReturnsEntryOfThatName ==
    \A n \in EnvNames :
        LET r == getEnvironment(env, n) IN
        /\ r.err = ErrNone <=> \E k \in DOMAIN env : env[k].Name = n
        /\ r.err = ErrNone => r.env.Name = n

\* The entry an update merges out of the entry cur and the new value e: the
\* fields e sets replace those of cur.
Merged(cur, e) ==
    [Name |-> IF e.Name # "" THEN e.Name ELSE cur.Name,
     Namespace |-> IF e.Namespace # "" THEN e.Namespace ELSE cur.Namespace,
     CreatedAt |-> IF e.CreatedAt # 0 THEN e.CreatedAt ELSE cur.CreatedAt,
     URL |-> IF e.URL # NilURL THEN e.URL ELSE cur.URL,
     StatusChecks |-> IF e.StatusChecks # NilProbes THEN e.StatusChecks
                      ELSE cur.StatusChecks,
     MetaProbes |-> IF e.MetaProbes # NilProbes THEN e.MetaProbes ELSE cur.MetaProbes]

\* An immutable field of e differs from the entry stored under old before the
\* update (an absent entry differs in its name).
ImmutableDiffers(old, e) ==
    \/ e.Name # old
    \/ /\ old \in DOMAIN pre.env
       /\ \/ e.Namespace # pre.env[old].Namespace
          \/ e.CreatedAt # pre.env[old].CreatedAt

\* C3: after every successful update(old, e), either e.Name = old and get(old)
\* returns the merged entry, or an immutable field differs, get(old) is
\* not-found and get(e.Name) returns exactly e.
C3_UpdatePostcondition ==
    Did("update", ErrNone) =>
        LET old == last.name
            e == last.env
            merged == IF old \in DOMAIN pre.env THEN Merged(pre.env[old], e) ELSE e
        IN \/ /\ e.Name = old
              /\ getEnvironment(env, old) = [err |-> ErrNone, env |-> merged]
           \/ /\ ImmutableDiffers(old, e)
              /\ getEnvironment(env, old).err = ErrEnvironmentNotFound
              /\ getEnvironment(env, e.Name) = [err |-> ErrNone, env |-> e]

\* Handles held by one entry.
StatusProbesOf(e) == MapRange(e.StatusChecks) \ {NilProbe}

MetaProbesOf(e) == MapRange(e.MetaProbes) \ {NilProbe}

\* C4: every probe handle that was ever installed in a store entry is destroyed
\* exactly once, no later than when no entry holds it any more; none is left
\* undestroyed and none is destroyed twice.
C4_ProbesDestroyedExactlyOnce ==
    \A p \in installed :
        /\ destroyed[p] <= 1
        /\ p \notin Held(env) => destroyed[p] = 1

\* Keys whose entry the last call destroyed: the key of a delete, the key an
\* add collided on, the key of an update that changed an immutable field.
DestroyedKeys ==
    {k \in DOMAIN pre.env :
        \/ Did("delete", ErrNone) /\ k = last.name
        \/ Did("add", ErrNone) /\ k = last.env.Name
        \/ /\ last.op = "update"
           /\ last.name \in DOMAIN pre.env
           /\ EnvUpdateEnvironment(pre.env[last.name], last.env).err
                = ErrImmutableFieldChanged
           /\ k = last.name}

\* C5: whenever an entry is destroyed, each probe it owns, status check and
\* metadata probe alike, is asked to release its resources.
C5_DestroyedEntryReleasesEveryProbe ==
    \A k \in DestroyedKeys :
        \A p \in StatusProbesOf(pre.env[k]) \cup MetaProbesOf(pre.env[k]) :
            destroyed[p] > pre.destroyed[p]

\* Names of the live entries of the map m.
LiveNames(m) == {m[k].Name : k \in DOMAIN m}

\* Keys of the entries of m whose name is n.
KeysNamed(m, n) == {k \in DOMAIN m : m[k].Name = n}

\* Every entry of m whose name is not n is an entry of m2, unchanged.
OthersUntouched(m, m2, n) ==
    \A k \in DOMAIN m \ KeysNamed(m, n) : k \in DOMAIN m2 /\ m2[k] = m[k]

\* The last call was add(e) with a valid e whose name was the name of a live
\* entry.
AddOnLiveName ==
    /\ last.op = "add"
    /\ IsValid(last.env) = {}
    /\ last.env.Name \in LiveNames(pre.env)

\* C6: add(e) with a valid e whose name is the name of a live entry succeeds,
\* destroys the status probes of the prior entry, stores e under that name,
\* leaves count() unchanged and leaves every other entry untouched.
C6_AddOverwritesLiveName ==
    AddOnLiveName =>
        LET n == last.env.Name IN
        /\ last.err = ErrNone
        /\ \A k \in KeysNamed(pre.env, n) :
             \A p \in StatusProbesOf(pre.env[k]) : destroyed[p] = pre.destroyed[p] + 1
        /\ getEnvironment(env, n) = [err |-> ErrNone, env |-> last.env]
        /\ getEnvironmentCount(env).count = getEnvironmentCount(pre.env).count
        /\ OthersUntouched(pre.env, env, n)

\* C7: delete(name) on the name of a live entry removes exactly that entry,
\* lowers count() by one and calls Destroy on every status probe of the entry;
\* on an absent name it returns not-found and changes nothing, so the name
\* deleted is absent afterwards and a second delete of it fails.
C7_DeleteRemovesExactlyThatEntry ==
    last.op = "delete" =>
        LET n == last.name IN
        IF n \in LiveNames(pre.env)
        THEN /\ last.err = ErrNone
             /\ n \notin LiveNames(env)
             /\ getEnvironment(env, n).err = ErrEnvironmentNotFound
             /\ OthersUntouched(pre.env, env, n)
             /\ getEnvironmentCount(env).count
                  = getEnvironmentCount(pre.env).count - 1
             /\ \A k \in KeysNamed(pre.env, n) :
                  \A p \in StatusProbesOf(pre.env[k]) :
                      destroyed[p] = pre.destroyed[p] + 1
             /\ deleteEnvironment(Store, n).err = ErrEnvironmentNotFound
        ELSE /\ last.err = ErrEnvironmentNotFound
             /\ Store = pre

\* The last call was update(old, e) for a name old that no live entry had.
UpdateOfAbsentName == last.op = "update" /\ last.name \notin LiveNames(pre.env)

\* C8: update(old, e) for a name old that is not the name of a live entry has
\* exactly the effect and result of add(e): e is validated, stored under e.Name
\* on success, and rejected with the store unchanged when it is invalid.
C8_UpdateOfAbsentNameIsAdd ==
    UpdateOfAbsentName =>
        LET a == addEnvironment(pre, last.env) IN
        /\ last.err = a.err
        /\ Store = a.st
        /\ IF IsValid(last.env) = {}
           THEN /\ last.err = ErrNone
                /\ getEnvironment(env, last.env.Name) = [err |-> ErrNone, env |-> last.env]
           ELSE /\ last.err = ErrInvalidEnvironment
                /\ Store = pre

\* s is sorted ascending by the names key(s[i]), without repetition.
StrictlyAscending(s) ==
    \A i, j \in 1..Len(s) : i < j => Less(s[i], s[j])

\* C9: listNames() returns a sequence that is sorted ascending, has no
\* duplicates, and whose elements are exactly the names of the live entries,
\* so that its length is count().
C9_ListNamesSortedLiveNames ==
    last.op = "listNames" =>
        /\ StrictlyAscending(ret.names)
        /\ {ret.names[i] : i \in 1..Len(ret.names)}
             = {env[k].Name : k \in DOMAIN env}
        /\ Len(ret.names) = getEnvironmentCount(env).count

\* C10: GetAllEnvironments returns every live entry exactly once, sorted by
\* name ascending.
C10_GetAllSortedByName ==
    last.op = "getAll" =>
        /\ Len(ret.envs) = Cardinality(DOMAIN env)
        /\ \A k \in DOMAIN env :
             Cardinality({i \in 1..Len(ret.envs) : ret.envs[i] = env[k]})
               = Cardinality({k2 \in DOMAIN env : env[k2] = env[k]})
        /\ \A i, j \in 1..Len(ret.envs) :
             i < j => ~Less(ret.envs[j].Name, ret.envs[i].Name)

\* ---------------------------------------------------------------------------
\* Properties of the probe layer
\* ---------------------------------------------------------------------------

\* A call of Value has returned in the last step, on a probe that is still
\* registered.
ValueReturned ==
    /\ fin.by # NoCaller
    /\ fin.r.op \in {"value", "filter"}
    /\ eq[fin.r.probe].registered

\* The call that has returned started less than one interval after the last
\* success of its probe.
StartedFresh ==
    /\ fin.r.seenUpdate # ZeroTime
    /\ fin.r.start - fin.r.seenUpdate < Interval

C12_OneBulkQueryPerInterval ==
    \A i, j \in 1..Len(queries) :
        /\ i < j
        /\ queries[i].querier = "bulk"
        /\ queries[j].querier = "bulk"
        => queries[j].issued - queries[i].issued >= Interval

\* The sample s comes from a backend query issued less than one interval ago.
Fresh(s) == s.q # 0 /\ Since(queries[s.q].issued) < Interval

\* C13: the stale-read window of a probe equals its interval: a sample that
\* value() returns at time t was produced by a backend query issued less than
\* one interval before t.
C13_StaleWindowIsInterval ==
    ValueReturned /\ fin.r.err = ErrNone => Fresh(fin.r.val) /\ Fresh(fin.r.txt)

\* The querier whose backend query serves probe p, as named in queries.
QuerierOf(p) == IF p \in SingleProbes THEN p ELSE "bulk"

\* The queries of the querier of the call that has returned which were issued
\* while that call was running.
IssuedDuring ==
    {i \in 1..Len(queries) :
        /\ queries[i].querier = QuerierOf(fin.r.probe)
        /\ queries[i].issued >= fin.r.start}

\* The call that has returned started with the cache of its probe expired.
StartedExpired == fin.r.start - fin.r.seenUpdate >= Interval

\* C14: value() calls on a probe whose cache has expired serialize behind one
\* refresh: when the backend answers successfully, a call returns the sample of
\* the one query issued for the refresh, whether it issued that query itself
\* or waited for the caller that did.
C14_OneRefreshServesAllCallers ==
    /\ ValueReturned
    /\ StartedExpired
    /\ \A i \in IssuedDuring : queries[i].state # "failed"
    => /\ fin.r.err = ErrNone
       /\ fin.r.val = fin.r.txt
       /\ fin.r.val.q # 0
       /\ IssuedDuring \subseteq {fin.r.val.q}

C14_Witness ==
    /\ ValueReturned
    /\ StartedExpired
    /\ fin.r.err = ErrNone
    /\ fin.r.nq = 0
    /\ IssuedDuring = {fin.r.val.q}

\* The label value the bulk result is searched for on behalf of probe p.
ExpectedKey(p) ==
    IF bulk.MatchOn = QueryMatchOnEnvName THEN Bound[p].name ELSE Bound[p].namespace

\* A call of Value on a bound environment has returned while the bulk result
\* is complete, no bulk query failed during the call, and the match key of the
\* environment is not in the result.
MissReturned ==
    /\ ValueReturned
    /\ fin.r.probe \in BulkProbes
    /\ bulk.mu = NoCaller
    /\ bulk.q # 0
    /\ \A i \in IssuedDuring : queries[i].state # "failed"
    /\ ExpectedKey(fin.r.probe) \notin DOMAIN bulk.valCache

\* C15: a bound environment whose match key (its name under matchOn = name,
\* its namespace under matchOn = namespace) is absent from the bulk result gets
\* the value 0 and no error, from the call that refreshed the result and from
\* the calls served out of it.
C15_MissingKeyIsZeroWithoutError ==
    MissReturned =>
        /\ fin.r.err = ErrNone
        /\ \A s \in {fin.r.val, fin.r.txt} : s.q = bulk.q => s.Value = 0

C15_Witness ==
    /\ MissReturned
    /\ bulk.MatchOn = QueryMatchOnNamespace
    /\ bulk.valCache # << >>
    /\ fin.r.nq = 0
    /\ fin.r.val.q = bulk.q
    /\ fin.r.val.Value = 0

\* The backend has answered the query of a single-value querier in the last
\* step with a vector of n samples.
SingleVector(n) ==
    /\ fin.ans.kind = "vector"
    /\ fin.r.probe \in SingleProbes
    /\ Cardinality(fin.ans.keys) = n

\* The cached sample of probe p and the time it was stored.
Cached(p) == <<eq[p].lastStored, eq[p].lastUpdate>>

\* C16: the query of a single-value querier succeeds only when the backend
\* returns exactly one sample; zero samples are the error "result not found",
\* two or more the error "too many results", and in both failures the cached
\* sample of the probe and the time of its last update stay as they were.
C16_SingleSampleCardinality ==
    [][\A n \in 0..2 : SingleVector(n)' =>
          LET p == fin'.r.probe
              id == fin'.r.qid
              after == <<eq'[p].lastStored, eq'[p].lastUpdate>>
          IN
          /\ n = 1 => /\ fin'.r.err = ErrNone
                      /\ after = <<[Value |-> 1, Timestamp |-> queries[id].issued,
                                    q |-> id], now>>
          /\ n = 0 => fin'.r.err = ErrResultNotFound /\ after = Cached(p)
          /\ n = 2 => fin'.r.err = ErrTooManyResults /\ after = Cached(p)]_vars

C16_Witness ==
    /\ SingleVector(2)
    /\ fin.r.err = ErrTooManyResults
    /\ eq[fin.r.probe].lastStored.q # 0

\* The filter state holds of status checks with the given outcomes.
FilterHolds(checks, state) ==
    \A c \in DOMAIN state :
        /\ state[c] => c \in DOMAIN checks /\ checks[c] = "true"
        /\ ~state[c] => c \notin DOMAIN checks \/ checks[c] \in {"false", "error"}

\* C17: an environment matches a status filter exactly when, for every pair
\* (check, required) of the filter, required = true implies that the
\* environment has the check and it evaluates to true, and required = false
\* implies that the check is absent or evaluates to false; a probe that fails
\* counts as false, and the empty filter matches every environment.
C17_FilterMatching == ms.done => (ms.result <=> FilterHolds(ms.checks, ms.state))

C17_Witness ==
    /\ ms.done
    /\ ms.result
    /\ \E c \in DOMAIN ms.state : ~ms.state[c] /\ c \in DOMAIN ms.checks
                                   /\ ms.checks[c] = "error"
    /\ \E c \in DOMAIN ms.state : ms.state[c]
    /\ \E c \in DOMAIN ms.state : c \notin DOMAIN ms.checks

\* Names of the live entries that match the filter of the last listing, under
\* the probe outcomes of that listing.
MatchingNames ==
    {env[k].Name : k \in {x \in DOMAIN env : FilterHolds(ChecksOf(env[x], ret.out), ret.state)}}

\* C18: namesMatchingState(filter) returns exactly the names of the live
\* entries that match the filter, each once, sorted ascending.
C18_NamesMatchingState ==
    last.op = "namesWithState" =>
        /\ {ret.names[i] : i \in 1..Len(ret.names)} = MatchingNames
        /\ \A i, j \in 1..Len(ret.names) : i < j => Less(ret.names[i], ret.names[j])

\* The store after the mutation that took the lock last, had it run alone.
PostImage ==
    CASE last.op = "add" -> addEnvironment(pre, last.env).st
      [] last.op = "delete" -> deleteEnvironment(pre, last.name).st
      [] last.op = "update" -> updateEnvironment(pre, last.name, last.env).st
      [] OTHER -> pre

\* A read of the store has returned in the last step.
ReadReturned == "by" \in DOMAIN ret

\* C19: a read of the store never observes a torn state: what a get,
\* getByNamespace, getAll, listNames or count returns is a result of that read
\* on the store as it was before the mutation that took the lock last, or on
\* the store as that mutation leaves it; a reader never sees the store of an
\* update between the removal of the old entry and the insertion of the new.
C19_ReadsSeePreOrPostImage ==
    ReadReturned =>
        ret.r \in ResultsOn(ret.read, pre.env) \cup ResultsOn(ret.read, PostImage.env)

C19_Witness ==
    /\ ReadReturned
    /\ ret.during
    /\ ret.read[1] = "listNames"
    /\ last.op = "update"
    /\ last.err = ErrNone
    /\ last.name \in DOMAIN pre.env
    /\ last.env.Name # last.name
    /\ ret.r \in ResultsOn(ret.read, PostImage.env)
    /\ ret.r \notin ResultsOn(ret.read, pre.env)

\* Caller c holds the store lock, as a reader or as the writer.
HoldsStoreLock(c) == c \in slock.readers \/ slock.writer = c

\* Caller c cannot go on before a backend query is answered: its own query,
\* or the query of the caller that holds the probe mutex c is waiting for.
WaitsForBackend(c) ==
    \/ call[c].pc = "query"
    \/ /\ call[c].pc \in {"lock", "destroy"}
       /\ eq[call[c].probe].mu # NoCaller
       /\ call[eq[call[c].probe].mu].pc = "query"

\* C20: no backend query is in flight on behalf of a holder of the store
\* lock: the status-filtered listing and the Destroy calls of a deletion
\* included, whoever holds the store lock does only non-blocking work.
C20_NoBackendQueryUnderStoreLock ==
    \A c \in Callers : HoldsStoreLock(c) => ~WaitsForBackend(c)

\* An add or update event has been handled in the last step.
BuiltEvent == ev.type \in {"add", "update"} /\ last # Idle

\* C21: an add, update or delete event whose namespace carries no
\* environment-name label is skipped: the store is left as it was, and
\* AddEnvironment is called on no configured prober.
C21_EventWithoutNameIsSkipped ==
    ev.type # "none" /\ last # Idle /\ ev.ns.label = "" =>
        /\ Store = pre
        /\ \A n \in DOMAIN ev.checkCalls : ev.checkCalls[n] = 0
        /\ \A n \in DOMAIN ev.metaCalls : ev.metaCalls[n] = 0

\* The probe the status annotation of value v stands for.
AnnotatedCheck(v) == IF v \in {"true", "1"} THEN StaticTrue ELSE StaticFalse

\* C22: annotations take precedence over the configured probers: for every
\* check or metadata name with an annotation on the namespace, the probe of
\* the environment under that name is the static probe built from the
\* annotation and the configured prober of that name has AddEnvironment
\* called zero times for the event; every configured prober whose name has
\* no annotation has AddEnvironment called exactly once.
C22_AnnotationShadowsProber ==
    BuiltEvent =>
        /\ \A k \in DOMAIN ev.ns.status :
              /\ k \in DOMAIN last.env.StatusChecks
              /\ last.env.StatusChecks[k] = AnnotatedCheck(ev.ns.status[k])
              /\ k \in ConfiguredChecks => ev.checkCalls[k] = 0
        /\ \A k \in DOMAIN ev.ns.meta :
              /\ k \in DOMAIN last.env.MetaProbes
              /\ last.env.MetaProbes[k] = StaticMeta
              /\ k \in ConfiguredMetadata => ev.metaCalls[k] = 0
        /\ \A k \in ConfiguredChecks \ DOMAIN ev.ns.status : ev.checkCalls[k] = 1
        /\ \A k \in ConfiguredMetadata \ DOMAIN ev.ns.meta : ev.metaCalls[k] = 1
        /\ last.err = ErrNone /\ last.env.Name \in DOMAIN env =>
              /\ env[last.env.Name].StatusChecks = last.env.StatusChecks
              /\ env[last.env.Name].MetaProbes = last.env.MetaProbes

C22_Witness ==
    /\ BuiltEvent
    /\ last.err = ErrNone
    /\ "healthy" \in DOMAIN ev.ns.status
    /\ ev.ns.status["healthy"] = "1"
    /\ ev.ns.meta = << >>
    /\ ev.metaCalls["owner"] = 1
    /\ env[last.env.Name].StatusChecks["healthy"] = StaticTrue

\* The names an add or update event leaves in a probe map: those with an
\* annotation and those of the configured probers that did not fail.
ExpectedNames(ann, configured, fail) == DOMAIN ann \cup (configured \ fail)

\* C23: when a prober fails to bind the environment of an add or update
\* event, only the name of that prober is missing from the environment and
\* the event succeeds: the environment is stored with every annotation probe
\* and every probe whose binding succeeded.
C23_FailedBindingIsSkipped ==
    BuiltEvent /\ ev.ns.label # "" =>
        /\ last.err = ErrNone
        /\ ev.ns.label \in DOMAIN env
        /\ DOMAIN env[ev.ns.label].StatusChecks =
              ExpectedNames(ev.ns.status, ConfiguredChecks, ev.fail.checks)
        /\ DOMAIN env[ev.ns.label].MetaProbes =
              ExpectedNames(ev.ns.meta, ConfiguredMetadata, ev.fail.metadata)
        /\ \A k \in DOMAIN env[ev.ns.label].StatusChecks :
              env[ev.ns.label].StatusChecks[k] # NilProbe

C23_Witness ==
    /\ BuiltEvent
    /\ ev.ns.label # ""
    /\ ev.fail.checks = {"healthy"}
    /\ ev.fail.metadata = {}
    /\ last.err = ErrNone
    /\ DOMAIN env[ev.ns.label].StatusChecks = {}
    /\ DOMAIN env[ev.ns.label].MetaProbes = {"owner"}

\* The tokens of a parameter value: its maximal stretches without a comma,
\* as pairs of positions (an empty stretch has i = j + 1).
Stretches(s) ==
    {ij \in (1..Len(s) + 1) \X (0..Len(s)) :
        /\ ij[1] <= ij[2] + 1
        /\ \A k \in ij[1]..ij[2] : s[k] # ","
        /\ ij[1] = 1 \/ s[ij[1] - 1] = ","
        /\ ij[2] = Len(s) \/ s[ij[2] + 1] = ","}

\* s without the blanks around it.
Core(s) ==
    LET solid == {k \in 1..Len(s) : s[k] # " "} IN
    IF solid = {}
    THEN << >>
    ELSE SubSeq(s, CHOOSE k \in solid : \A l \in solid : k <= l,
                   CHOOSE k \in solid : \A l \in solid : l <= k)

\* What a token asks for: the name and the value required of it; a token
\* without a name asks for nothing.
Asks(token) ==
    LET t == Core(token) IN
    IF t = << >>
    THEN {}
    ELSE IF t[1] = "!"
         THEN IF Core(Tail(t)) = << >> THEN {} ELSE {<<Core(Tail(t)), FALSE>>}
         ELSE {<<t, TRUE>>}

\* Everything the tokens of all the occurrences ask for.
AllAsked(values) ==
    UNION {Asks(SubSeq(values[p[1]], p[2][1], p[2][2])) :
             p \in UNION {{v} \X Stretches(values[v]) : v \in DOMAIN values}}

Parsed == "filter" \in DOMAIN ret

\* C26: the filter parsed from a request holds exactly the names of the
\* tokens of all occurrences of the parameter, a token being a stretch
\* between commas with the blanks around it removed: NAME asks for true,
\* !NAME (the blanks around NAME removed again) for false, empty tokens and a
\* lone exclamation mark ask for nothing, and no occurrence gives the empty
\* filter.
C26_StatusFilterParsing ==
    Parsed =>
        LET asked == AllAsked(ret.values) IN
        /\ DOMAIN ret.filter = {a[1] : a \in asked}
        /\ \A n \in DOMAIN ret.filter : <<n, ret.filter[n]>> \in asked
        /\ ret.values = << >> => ret.filter = << >>

C26_Witness ==
    /\ Parsed
    /\ ret.values = << <<" ", "a", " ">>, <<"!", " ", "a">> >>
    /\ ret.filter = [n \in {<<"a">>} |-> FALSE]

\* What the tokens of a request require of the checks named in Spelling.
Requires(values) ==
    {r \in (DOMAIN Spelling) \X BOOLEAN : <<Spelling[r[1]], r[2]>> \in AllAsked(values)}

\* The entry e has the check n and the check evaluates to true under out.
CheckIsTrue(e, out, n) ==
    /\ n \in DOMAIN ProbesOf(e.StatusChecks)
    /\ e.StatusChecks[n] \in DOMAIN out
    /\ out[e.StatusChecks[n]] = "true"

\* The entry e meets every requirement of the request.
Satisfies(e, out, values) ==
    \A r \in Requires(values) : CheckIsTrue(e, out, r[1]) <=> r[2]

Listed == last.op = "list"

\* C24: GET /v1/environment with namespace=ns answers 200 with the empty
\* list when no environment is backed by ns, and otherwise with the name of
\* an environment backed by ns, alone, when that environment meets the status
\* filter of the request (always, when the request has none), and with the
\* empty list when it does not: the filter is applied to that environment
\* only.
C24_NamespaceLookupThenFilter ==
    Listed /\ ret.namespace # "" =>
        LET backed == {k \in DOMAIN env : env[k].Namespace = ret.namespace} IN
        /\ ret.code = 200
        /\ backed = {} => ret.environments = << >>
        /\ backed # {} =>
              \E k \in backed :
                 ret.environments = IF Satisfies(env[k], ret.out, ret.values)
                                    THEN <<env[k].Name>>
                                    ELSE << >>

\* Two environments, the request names the namespace of the one that does
\* not meet the filter while the other one does.
C24_Witness ==
    /\ Listed
    /\ ret.namespace = "n1"
    /\ ret.values = << <<"a">> >>
    /\ ret.environments = << >>
    /\ \E k \in DOMAIN env : env[k].Namespace = "n1"
    /\ \E k \in DOMAIN env :
          env[k].Namespace = "n2" /\ Satisfies(env[k], ret.out, ret.values)

\* The outcomes with every failure replaced by false.
ErrorsAsFalse(out) == [p \in DOMAIN out |-> IF out[p] = "error" THEN "false" ELSE out[p]]

\* C25: GET /v1/environment answers 200 for every store and every status
\* filter, failing probes included, and lists what it would list if every
\* failing check had evaluated to false.
C25_ListNeverFailsOnProbe ==
    Listed =>
        /\ ret.code = 200
        /\ ret.namespace = "" =>
              {ret.environments[i] : i \in 1..Len(ret.environments)} =
                  {k \in DOMAIN env : Satisfies(env[k], ErrorsAsFalse(ret.out), ret.values)}
        /\ ret.namespace # "" /\ ret.environments # << >> =>
              \E k \in DOMAIN env :
                  /\ env[k].Namespace = ret.namespace
                  /\ ret.environments = <<env[k].Name>>
                  /\ Satisfies(env[k], ErrorsAsFalse(ret.out), ret.values)

\* Every status probe of the store fails, the filter asks for a check to be
\* false, and the environment is listed.
C25_Witness ==
    /\ Listed
    /\ ret.code = 200
    /\ ret.namespace = ""
    /\ ret.values = << <<"!", "a">> >>
    /\ DOMAIN ret.out # {}
    /\ \A p \in DOMAIN ret.out : ret.out[p] = "error"
    /\ ret.environments # << >>

\* The checks of the entry e named by a positive token of the request.
Positive(e, values) ==
    {n \in DOMAIN ProbesOf(e.StatusChecks) : <<n, TRUE>> \in Requires(values)}

\* Some probe the all-environments handler has to evaluate fails.
AllFails ==
    \E k \in DOMAIN env : \E n \in Positive(env[k], ret.values) :
        ret.out[env[k].StatusChecks[n]] = "error"

ListedAll == last.op = "all"

ProbesOfEntry(e) ==
    (MapRange(ProbesOf(e.StatusChecks)) \cup MapRange(ProbesOf(e.MetaProbes)))

Detailed == last.op = "detail"

\* C28: GET /v1/environment/{name} answers 404 when no environment has the
\* name; otherwise it evaluates every status check and every metadata probe
\* of the environment and answers 200 with all of them in the document, or,
\* when one of them fails, 500 without a document.  GET /v1/environment/all
\* answers 500 without any document when a probe it evaluates fails.
C28_ProbeErrorIsInternalError ==
    /\ Detailed /\ (\A k \in DOMAIN env : env[k].Name # ret.name) => ret.code = 404
    /\ Detailed => (ret.code = 404 <=> ret.name \notin DOMAIN env)
    /\ Detailed /\ ret.name \in DOMAIN env =>
          LET e == env[ret.name] IN
          IF \E p \in ProbesOfEntry(e) : ret.out[p] = "error"
          THEN ret.code = 500 /\ "document" \notin DOMAIN ret
          ELSE /\ ret.code = 200
               /\ ret.seen = ProbesOfEntry(e)
               /\ DOMAIN ret.document.status = DOMAIN ProbesOf(e.StatusChecks)
               /\ DOMAIN ret.document.statusUpdatedAt = DOMAIN ProbesOf(e.StatusChecks)
               /\ IF DOMAIN ProbesOf(e.MetaProbes) = {}
                  THEN "meta" \notin DOMAIN ret.document
                  ELSE DOMAIN ret.document.meta = DOMAIN e.MetaProbes
    /\ ListedAll /\ AllFails => ret.code = 500 /\ "environments" \notin DOMAIN ret

\* The status check of the environment fails after its metadata probe was
\* read.
C28_Witness ==
    /\ Detailed
    /\ ret.code = 500
    /\ ret.name \in DOMAIN env
    /\ DOMAIN env[ret.name].StatusChecks = {"healthy"}
    /\ ret.out[env[ret.name].StatusChecks["healthy"]] = "error"
    /\ ret.out[env[ret.name].MetaProbes["owner"]] = "true"
    /\ Cardinality(ret.seen) = 2

Ignited == last.op = "ignition"

\* C29: POST /v1/environment/{name}/ignition answers 404 without a call of
\* the provider when no environment has the name; otherwise it calls the
\* provider exactly once, with the name and the namespace of the environment,
\* and answers 500 when the provider returned an error and 202 when it did
\* not; the store is left as it was.
C29_IgnitionEndpoint ==
    Ignited =>
        /\ Store = pre
        /\ (\A k \in DOMAIN env : env[k].Name # ret.name) =>
              ret.code = 404 /\ ign.calls = ret.before
        /\ ret.name \notin DOMAIN env => ret.code = 404 /\ ign.calls = ret.before
        /\ ret.name \in DOMAIN env =>
              /\ ign.calls = ret.before + 1
              /\ ign.last.req = [Environment |-> env[ret.name].Name,
                                 Namespace |-> env[ret.name].Namespace]
              /\ ret.code = IF ign.last.err # ErrNone THEN 500 ELSE 202

\* An ignition accepted after one that failed.
C29_Witness ==
    /\ Ignited
    /\ ret.code = 202
    /\ ret.before = 1
    /\ ign.calls = 2
    /\ ign.last.req = [Environment |-> "a", Namespace |-> "n1"]
    /\ <<ProviderName, "a", "n1", "error">> \in DOMAIN ign.triggers

\* The value of a counter series, zero for one never incremented.
CounterValue(counters, labels) ==
    IF labels \in DOMAIN counters THEN counters[labels] ELSE 0

\* The sum of the counter series with the given labels.
RECURSIVE CounterSum(_, _)
CounterSum(counters, labels) ==
    IF labels = {}
    THEN 0
    ELSE LET l == CHOOSE x \in labels : TRUE IN
         counters[l] + CounterSum(counters, labels \ {l})

\* C30: every Trigger call through the instrumented provider increments
\* exactly one series of ignition_triggers_total, by one: the series of the
\* environment and namespace of the request with status accepted when the
\* call returned no error and with status error when it returned one; the
\* built-in provider returns an error for a request with an empty
\* environment and leaves last_ignition_requested as it was.
C30_TriggerCountedOnce ==
    [][ign' # ign =>
         LET req == ign'.last.req
             ok == ign'.last.err = ErrNone
             labels == <<ProviderName, req.Environment, req.Namespace,
                         IF ok THEN "accepted" ELSE "error">>
         IN /\ ign'.calls = ign.calls + 1
            /\ CounterValue(ign'.triggers, labels) = CounterValue(ign.triggers, labels) + 1
            /\ CounterSum(ign'.triggers, DOMAIN ign'.triggers) =
                  CounterSum(ign.triggers, DOMAIN ign.triggers) + 1
            /\ DOMAIN ign.triggers \subseteq DOMAIN ign'.triggers
            /\ ign'.last.next = "prometheus" /\ req.Environment = "" =>
                  ~ok /\ ign'.requested = ign.requested
            /\ ign'.last.next = "prometheus" /\ req.Environment # "" =>
                  ok /\ <<req.Environment, req.Namespace>> \in DOMAIN ign'.requested
      ]_vars

\* The built-in provider has rejected a request without an environment after
\* it had accepted one.
C30_Witness ==
    /\ last.op = "trigger"
    /\ ign.last.next = "prometheus"
    /\ ign.last.req.Environment = ""
    /\ ign.last.err = ErrEnvironmentRequired
    /\ ign.triggers = (<<ProviderName, "a", "n1", "accepted">> :> 1) @@
                       (<<ProviderName, "", "n1", "error">> :> 1)
    /\ DOMAIN ign.requested = {<<"a", "n1">>}

Served == last.op = "serve"

\* C31: every response of the server carries the header
\* Access-Control-Allow-Origin with the value *, and a request of method
\* OPTIONS is answered 204, whatever its path, without any handler behind
\* the middleware having run: no probe is evaluated, the ignition provider is
\* not called and the store is as before.
C31_CORSOnEveryResponse ==
    Served =>
        /\ "Access-Control-Allow-Origin" \in DOMAIN ret.header
        /\ ret.header["Access-Control-Allow-Origin"] = "*"
        /\ ret.method = "OPTIONS" =>
              /\ ret.code = 204
              /\ ret.handler = "none"
              /\ ret.seen = {}
              /\ ign = ret.before
              /\ Store = pre

\* A preflight request on the ignition path of a stored environment.
C31_Witness ==
    /\ Served
    /\ ret.method = "OPTIONS"
    /\ ret.route = "ignition"
    /\ last.name \in DOMAIN env
    /\ ret.code = 204

\* C32: after any sequence of store operations the gauge of the
\* environments has a series with the labels (name, namespace) exactly when
\* a live entry has that name and that namespace; entries removed,
\* overwritten or created again leave no series behind.
C32_GaugeTracksLiveEntries ==
    envInfo = {<<env[k].Name, env[k].Namespace>> : k \in DOMAIN env}

\* The JSON texts of a bool, a number and a string, by their shape: the
\* literal true; digits without a leading zero; a pair of quotes with no
\* quote between them.
BoolText(c) == c = <<"true">>

NumberText(c) ==
    /\ c # << >>
    /\ \A i \in 1..Len(c) : c[i] \in {"0", "7"}
    /\ c[1] = "0" => Len(c) = 1

StringText(c) ==
    /\ Len(c) >= 2
    /\ c[1] = "\"" /\ c[Len(c)] = "\""
    /\ \A i \in 2..(Len(c) - 1) : c[i] # "\""

\* The number written by the digits c, the last digit first.
RECURSIVE Numeral(_)
Numeral(c) ==
    IF c = << >>
    THEN 0
    ELSE (IF c[Len(c)] = "7" THEN 7 ELSE 0) + 10 * Numeral(SubSeq(c, 1, Len(c) - 1))

AnnotationParsed == "got" \in DOMAIN ret

\* C33: the value of the probe of a metadata annotation is the bool, the
\* number or the string the annotation is the JSON text of, and the
\* annotation itself, unchanged, when it is the text of an object, an array
\* or null or no JSON text at all; reading the probe never fails.
C33_MetadataAnnotationTyped ==
    AnnotationParsed =>
        LET c == Core(ret.annotation) IN
        /\ ~ret.got.err
        /\ BoolText(c) => ret.got.type = "bool" /\ ret.got.val = TRUE
        /\ NumberText(c) => ret.got.type = "float64" /\ ret.got.val = Numeral(c)
        /\ StringText(c) =>
              ret.got.type = "string" /\ ret.got.val = SubSeq(c, 2, Len(c) - 1)
        /\ ~(BoolText(c) \/ NumberText(c) \/ StringText(c)) =>
              ret.got.type = "string" /\ ret.got.val = ret.annotation

\* The annotation is the JSON text of the string x.
C33_Witness ==
    /\ AnnotationParsed
    /\ ret.annotation = <<"\"", "x", "\"">>
    /\ ret.got = [type |-> "string", val |-> <<"x">>, err |-> FALSE]

\* The environment e changes none of the immutable fields of the entry cur:
\* it leaves them empty or repeats them.
KeepsImmutable(cur, e) ==
    /\ e.Name \in {"", cur.Name}
    /\ e.Namespace \in {"", cur.Namespace}
    /\ e.CreatedAt \in {0, cur.CreatedAt}

\* C34: an update that changes no immutable field is applied in place: the
\* entry keeps its name, namespace and creation time, each of urls,
\* statusChecks and metaProbes is the new value if that is non-nil and the
\* old one if it is nil, and every other entry of the store is as before.
C34_UpdateInPlace ==
    Did("update", ErrNone) /\ last.name \in DOMAIN pre.env
        /\ KeepsImmutable(pre.env[last.name], last.env) =>
        LET old == pre.env[last.name]
            new == last.env
        IN /\ DOMAIN env = DOMAIN pre.env
           /\ \A k \in DOMAIN env \ {last.name} : env[k] = pre.env[k]
           /\ env[last.name].Name = old.Name
           /\ env[last.name].Namespace = old.Namespace
           /\ env[last.name].CreatedAt = old.CreatedAt
           /\ env[last.name].URL = IF new.URL # NilURL THEN new.URL ELSE old.URL
           /\ env[last.name].StatusChecks =
                 IF new.StatusChecks # NilProbes THEN new.StatusChecks ELSE old.StatusChecks
           /\ env[last.name].MetaProbes =
                 IF new.MetaProbes # NilProbes THEN new.MetaProbes ELSE old.MetaProbes

\* C35: every entry held by the store satisfies the validity predicate that
\* guards addEnvironment (IsValid reports no problem), after any sequence of
\* add, update and delete, in-place updates included.
C35_StoredEntriesValid == \A k \in DOMAIN env : IsValid(env[k]) = {}

\* C36: a store mutation (add, update, delete) that returns an error leaves
\* the store as it was: the same entries with the same contents, the same
\* gauge series, and no probe destroyed.
C36_FailedMutationChangesNothing ==
    last.op \in {"add", "update", "delete"} /\ last.err # ErrNone => Store = pre

\* The namespace n is in the cluster and was never deleted or relabelled.
Steady(n) == kube[n].exists /\ ~kube[n].changed

\* C37: a delete event for namespace N removes only an entry backed by N:
\* every entry whose backing namespace is another one, still in the cluster
\* and never deleted or relabelled, is in the store after the event as it
\* was before.
C37_DeleteRemovesOnlyOwnEntry ==
    ev.type = "delete" /\ last # Idle =>
        \A k \in DOMAIN pre.env :
            pre.env[k].Namespace # ev.ns.name /\ Steady(pre.env[k].Namespace) =>
                k \in DOMAIN env /\ env[k] = pre.env[k]

\* The backend has answered in the last step and the refresh failed.
FailedRefresh == fin.ans.kind # "none" /\ fin.r.err # ErrNone

\* The sample s did not come from a query that failed.
Sound(s) == s.q # 0 => queries[s.q].state = "answered"

\* The next sample() on probe p goes to the backend: the cache of the probe
\* is expired, and so is the shared cache of a bulk querier.
NextIssues(c, p) ==
    LET r == [NoCall EXCEPT !.pc = "lock", !.op = "value", !.probe = p, !.start = now]
        s == sampleEnter(c, r)
    IN IF p \in SingleProbes
       THEN s.issue
       ELSE s.rec.pc = "bulklock" /\ bulkEnter(c, s.rec).issue

DetailCode(found, err) ==
    IF ~found THEN 404 ELSE IF err # ErrNone THEN 500 ELSE 200

\* A Value call made by ResolveProbes on the entry a detail request got from
\* the store has returned, and the entry was deleted (its probe destroyed)
\* after the request got it.
RacedWithDelete ==
    /\ fin.by # NoCaller
    /\ fin.r.op = "value"
    /\ ~eq[fin.r.probe].registered

\* C39: a detail request racing with the deletion of its environment (or
\* with an update that changes an immutable field, which deletes it too)
\* answers 200 or 404, never 500 because the probes of the environment were
\* destroyed between GetEnvironment and ResolveProbes.
C39_DetailRaceNeverInternalError ==
    RacedWithDelete => DetailCode(TRUE, fin.r.err) \in {200, 404}

\* The locks caller c holds and the lock it waits for, as ranks in the
\* order store (1), probe (2), querier (3).
HeldRanks(c) ==
    (IF c \in slock.readers \/ slock.writer = c THEN {1} ELSE {})
    \cup (IF \E p \in QueryProbes : eq[p].mu = c THEN {2} ELSE {})
    \cup (IF bulk.mu = c THEN {3} ELSE {})

WantedRanks(c) ==
    CASE call[c].pc \in {"rlock", "wlock", "wwait"} -> {1}
      [] call[c].pc \in {"lock", "destroy"} -> {2}
      [] call[c].pc = "bulklock" -> {3}
      [] OTHER -> {}

LockOrder ==
    \A c \in Callers :
        /\ \A h \in HeldRanks(c), w \in WantedRanks(c) : h < w
        /\ Cardinality({p \in QueryProbes : eq[p].mu = c}) <= 1
        /\ call[c].pc = "idle" => HeldRanks(c) = {}

\* C40: the store lock, the mutex of a probe and the mutex of the bulk
\* querier are acquired in the order store, probe, querier: a goroutine
\* waits only for a lock that comes after every lock it holds.  And with
\* every backend query answered, every call that has started (a filtered
\* listing, a Value call of a detail request, a deletion) returns.
C40_LockOrderAndProgress ==
    /\ []LockOrder
    /\ \A c \in Callers : (call[c].pc # "idle") ~> (call[c].pc = "idle")

\* A listing holds the store lock and the mutex of a bulk probe and waits
\* for the mutex of the querier while a deletion waits for the store lock.
C40_Witness ==
    \E c, d \in Callers :
        /\ c \in slock.readers
        /\ call[c].pc = "bulklock"
        /\ eq[call[c].probe].mu = c
        /\ call[d].pc = "wwait"

====
